---- MODULE Spec2Model ----
(***************************************************************************)
(* A model of iterflow: the tee forking engine (src/src/tee.ts), the       *)
(* synchronous lazy pipeline (src/src/lazy-iterator.ts) and the            *)
(* asynchronous lazy pipeline (src/src/lazy-async-iterator.ts).            *)
(*                                                                         *)
(* Each component has its own specification (SpecTee, ...) over the        *)
(* variables of its group; the variables of the other groups keep their    *)
(* initial value under it.                                                 *)
(***************************************************************************)
EXTENDS Integers, Sequences, FiniteSets, TLC

(* ------------------------------ bounds -------------------------------- *)

\* Longest source sequence.
MaxLen == 2

\* Largest number of forks of one tee group.
MaxForks == 2

\* The values a source yields.
Values == {1, 2}

SeqsUpTo(S, n) == UNION {[1..k -> S] : k \in 0..n}

MinOf(S) == CHOOSE x \in S : \A y \in S : x <= y

MaxOf(S) == CHOOSE x \in S : \A y \in S : x >= y

IsPrefix(s, t) == Len(s) <= Len(t) /\ SubSeq(t, 1, Len(s)) = s

(* ------------------------------ state --------------------------------- *)

VARIABLES
    \* the underlying source: what it yields, how it ends, calls made to next()
    srcItems, srcTail, srcCalls,
    \* the tee group (closure state of createTeeIterators)
    count, iteratorIndexPositions, streamBuffer, streamExhausted, streamError,
    done,
    \* observation of the tee group: the values each fork has returned, the
    \* forks stopped with return()/throw(), and the last completed call
    \* (late: that call was a next() started once the source's error was
    \* cached, on a fork not yet done whose position was the buffer's end)
    forkOut, stopped, who, op, res, late,
    \* the asynchronous tee group: each fork's next() in flight, and the forks
    \* whose call of the source's next() has not settled yet, oldest first,
    \* and the forks whose next() is scheduled to resume, oldest first
    pending, srcQueue, readyQueue,
    \* the pipeline: its class (LazyIterator or LazyAsyncIterator), its
    \* operation records, its exhausted flag and its element index
    cls, methods, exhausted, index,
    \* observation of the pipeline: the last completed operation
    plast,
    \* the asynchronous pipeline: the next() calls in flight, oldest first,
    \* and the terminal operation in progress
    inflight, term

srcVars == <<srcItems, srcTail, srcCalls>>

teeVars == <<count, iteratorIndexPositions, streamBuffer, streamExhausted,
             streamError, done>>

teeObs == <<forkOut, stopped, who, op, res, late>>

asyncTeeVars == <<pending, srcQueue, readyQueue>>

teeAll == <<teeVars, teeObs, asyncTeeVars>>

asyncPipeVars == <<inflight, term>>

pipeVars == <<cls, methods, exhausted, index, plast, asyncPipeVars>>

vars == <<srcVars, teeAll, pipeVars>>

\* streamError = null
NoError == "null"

(* ------------------------------ source -------------------------------- *)

\* The result of the c-th call of the source iterator's next(): the items in
\* order, then done or a thrown error; a generator that has thrown or
\* returned reports done ever after, while a source with the tail "rethrow"
\* (a fork of a tee group, which caches the error of its own source) throws
\* at every later call.
SourceOutcome(c) ==
    IF c <= Len(srcItems)
    THEN [kind |-> "value", value |-> srcItems[c]]
    ELSE IF srcTail = "rethrow" \/ (c = Len(srcItems) + 1 /\ srcTail = "throw")
         THEN [kind |-> "throw", value |-> 0]
         ELSE [kind |-> "done", value |-> 0]

(* ---------------------------- synchronous tee ------------------------- *)

\* mutant: the exhaustion is not cached, the source is asked again
getNextStreamElement_uncached ==
    IF streamError # NoError
    THEN [kind |-> "throw", value |-> 0, srcCalls |-> srcCalls,
          streamExhausted |-> streamExhausted, streamError |-> streamError]
    ELSE LET r == SourceOutcome(srcCalls + 1)
         IN  [kind |-> r.kind, value |-> r.value, srcCalls |-> srcCalls + 1,
              streamExhausted |-> FALSE,
              streamError |-> IF r.kind = "throw" THEN "e" ELSE streamError]

\* getNextStreamElement(): the result and the closure state it leaves.
getNextStreamElement ==
    IF streamExhausted
    THEN [kind |-> "done", value |-> 0, srcCalls |-> srcCalls,
          streamExhausted |-> streamExhausted, streamError |-> streamError]
    ELSE IF streamError # NoError
    THEN [kind |-> "throw", value |-> 0, srcCalls |-> srcCalls,
          streamExhausted |-> streamExhausted, streamError |-> streamError]
    ELSE LET r == SourceOutcome(srcCalls + 1)
         IN  [kind |-> r.kind, value |-> r.value, srcCalls |-> srcCalls + 1,
              streamExhausted |-> (r.kind = "done"),
              streamError |-> IF r.kind = "throw" THEN "e" ELSE streamError]

\* mutant: the buffer is trimmed but the positions are not shifted down
cleanupStreamBuffer_noShift(positions, buffer) ==
    LET deletedElementsCount == MinOf({positions[i] : i \in DOMAIN positions})
    IN  [pos |-> positions,
         buf |-> SubSeq(buffer, deletedElementsCount + 1, Len(buffer))]

\* mutant: the positions are shifted down but the buffer head is not removed
cleanupStreamBuffer_noSplice(positions, buffer) ==
    LET deletedElementsCount == MinOf({positions[i] : i \in DOMAIN positions})
    IN  [pos |-> [i \in DOMAIN positions |-> positions[i] - deletedElementsCount],
         buf |-> buffer]

\* cleanupStreamBuffer(): splice the smallest position off the buffer head
\* and subtract it from every position.
cleanupStreamBuffer(positions, buffer) ==
    LET deletedElementsCount == MinOf({positions[i] : i \in DOMAIN positions})
    IN  [pos |-> [i \in DOMAIN positions |-> positions[i] - deletedElementsCount],
         buf |-> SubSeq(buffer, deletedElementsCount + 1, Len(buffer))]

\* Fork i is not done, has read the whole buffer, and the source's error is
\* cached: its next() pulls past the point of failure.
AtFailurePoint(i) ==
    /\ streamError # NoError
    /\ ~done[i]
    /\ iteratorIndexPositions[i] = Len(streamBuffer)

\* next() of fork i, whole.
TeeNext(i) ==
    /\ UNCHANGED pipeVars
    /\ who' = i /\ op' = "next"
    /\ late' = AtFailurePoint(i)
    /\ UNCHANGED <<srcItems, srcTail, count, stopped, asyncTeeVars>>
    /\ IF done[i]
       THEN /\ res' = "done"
            /\ UNCHANGED <<srcCalls, iteratorIndexPositions, streamBuffer,
                           streamExhausted, streamError, done, forkOut>>
       ELSE IF iteratorIndexPositions[i] < Len(streamBuffer)
       THEN LET value == streamBuffer[iteratorIndexPositions[i] + 1]
                c == cleanupStreamBuffer(
                        [iteratorIndexPositions EXCEPT ![i] = @ + 1],
                        streamBuffer)
            IN  /\ iteratorIndexPositions' = c.pos
                /\ streamBuffer' = c.buf
                /\ forkOut' = [forkOut EXCEPT ![i] = Append(@, value)]
                /\ res' = "value"
                /\ UNCHANGED <<srcCalls, streamExhausted, streamError, done>>
       ELSE LET r == getNextStreamElement
            IN  /\ srcCalls' = r.srcCalls
                /\ streamExhausted' = r.streamExhausted
                /\ streamError' = r.streamError
                /\ res' = r.kind
                /\ IF r.kind = "throw"
                   THEN UNCHANGED <<iteratorIndexPositions, streamBuffer,
                                    done, forkOut>>
                   ELSE IF r.kind = "done"
                   THEN /\ done' = [done EXCEPT ![i] = TRUE]
                        /\ UNCHANGED <<iteratorIndexPositions, streamBuffer,
                                       forkOut>>
                   ELSE LET c == cleanupStreamBuffer(
                                [iteratorIndexPositions EXCEPT ![i] = @ + 1],
                                Append(streamBuffer, r.value))
                        IN  /\ iteratorIndexPositions' = c.pos
                            /\ streamBuffer' = c.buf
                            /\ forkOut' = [forkOut EXCEPT
                                              ![i] = Append(@, r.value)]
                            /\ UNCHANGED done

\* mutant: return() also ends the stream for the sibling forks
TeeReturn_endsStream(i) ==
    /\ UNCHANGED pipeVars
    /\ who' = i /\ op' = "return" /\ res' = "done"
    /\ done' = [done EXCEPT ![i] = TRUE]
    /\ stopped' = [stopped EXCEPT ![i] = TRUE]
    /\ late' = FALSE
    /\ streamExhausted' = TRUE
    /\ UNCHANGED <<srcVars, count, iteratorIndexPositions, streamBuffer,
                   streamError, forkOut, asyncTeeVars>>

\* return(value) of fork i.
TeeReturn(i) ==
    /\ UNCHANGED pipeVars
    /\ who' = i /\ op' = "return" /\ res' = "done"
    /\ done' = [done EXCEPT ![i] = TRUE]
    /\ stopped' = [stopped EXCEPT ![i] = TRUE]
    /\ late' = FALSE
    /\ UNCHANGED <<srcVars, count, iteratorIndexPositions, streamBuffer,
                   streamExhausted, streamError, forkOut, asyncTeeVars>>

\* throw(e) of fork i.
TeeThrow(i) ==
    /\ UNCHANGED pipeVars
    /\ who' = i /\ op' = "throw" /\ res' = "throw"
    /\ done' = [done EXCEPT ![i] = TRUE]
    /\ stopped' = [stopped EXCEPT ![i] = TRUE]
    /\ late' = FALSE
    /\ UNCHANGED <<srcVars, count, iteratorIndexPositions, streamBuffer,
                   streamExhausted, streamError, forkOut, asyncTeeVars>>

\* What plast holds before any operation of the pipeline.
NoOp == [op |-> "none", arg |-> "none", kind |-> "none", value |-> 0,
         elems |-> <<>>, out |-> <<>>, preExh |-> FALSE, cb |-> 0, src |-> 0,
         nexts |-> 0, ret |-> "none"]

\* No terminal operation of the asynchronous pipeline is in progress.
NoTerm == [op |-> "none", arg |-> "none", w |-> 0, out |-> <<>>, n |-> 0,
           dropping |-> FALSE, done |-> FALSE, preExh |-> FALSE, src |-> 0,
           threw |-> FALSE, reason |-> 0, nexts |-> 0, seen |-> <<>>,
           preds |-> <<>>]

\* No pipeline is part of the behaviour.
NoPipeline ==
    /\ cls = "none" /\ methods = <<>> /\ exhausted = FALSE /\ index = 0
    /\ plast = NoOp
    /\ inflight = <<>> /\ term = NoTerm

\* No next() of the fork is in flight.
Idle == [pc |-> "idle", kind |-> "none", value |-> 0, late |-> FALSE]

\* createTeeIterators(source, count) for a count >= 1.
InitTee ==
    /\ srcItems \in SeqsUpTo(Values, MaxLen)
    /\ srcTail \in {"done", "throw"}
    /\ srcCalls = 0
    /\ count \in 1..MaxForks
    /\ iteratorIndexPositions = [i \in 1..count |-> 0]
    /\ streamBuffer = <<>>
    /\ streamExhausted = FALSE
    /\ streamError = NoError
    /\ done = [i \in 1..count |-> FALSE]
    /\ forkOut = [i \in 1..count |-> <<>>]
    /\ stopped = [i \in 1..count |-> FALSE]
    /\ who = 0 /\ op = "none" /\ res = "none" /\ late = FALSE
    /\ pending = [i \in 1..count |-> Idle]
    /\ srcQueue = <<>>
    /\ readyQueue = <<>>
    /\ NoPipeline

NextTee ==
    \/ \E i \in 1..count : TeeNext(i)
    \/ \E i \in 1..count : TeeReturn(i)
    \/ \E i \in 1..count : TeeThrow(i)

SpecTee == InitTee /\ [][NextTee]_vars

(* ------------------------ claims: synchronous tee --------------------- *)

Forks == 1..count

Positions == {iteratorIndexPositions[i] : i \in Forks}

\* C1: whatever the interleaving of next() calls over the forks, the values a
\* fork has returned are a prefix of the source's sequence, and a fork whose
\* next() has reported done (without having been stopped) has returned the
\* whole sequence.
C1_ForkSeesSourcePrefix ==
    \A i \in Forks :
        /\ IsPrefix(forkOut[i], srcItems)
        /\ (done[i] /\ ~stopped[i]) => forkOut[i] = srcItems

\* C1 witness: two forks, one pulled to done with the whole sequence of two
\* values, the other still behind it.
C1_Witness ==
    /\ count >= 2 /\ Len(srcItems) >= 2
    /\ \E i, j \in Forks :
          /\ done[i] /\ ~stopped[i] /\ forkOut[i] = srcItems
          /\ ~done[j] /\ Len(forkOut[j]) = 1

\* C2: the source's next() is called at most k+1 times for a source of k
\* values (so never again once it has reported done), whatever N and the
\* interleaving.
C2_SinglePass ==
    srcCalls <= Len(srcItems) + 1

\* C2 witness: the source has reported done and every one of two forks has
\* since pulled to its own done.
C2_Witness ==
    /\ count >= 2 /\ srcTail = "done" /\ Len(srcItems) >= 1
    /\ srcCalls = Len(srcItems) + 1
    /\ \A i \in Forks : done[i] /\ ~stopped[i]

\* C3: after every completed call the smallest read position is 0 and the
\* buffer is as long as the largest read position minus the smallest.
C3_BufferIsSpread ==
    /\ MinOf(Positions) = 0
    /\ Len(streamBuffer) = MaxOf(Positions) - MinOf(Positions)

\* C3 witness: a trim has happened: two values were pulled and only one is
\* still buffered.
C3_Witness ==
    /\ count >= 2 /\ srcCalls = 2 /\ Len(streamBuffer) = 1
    /\ res = "value"

ActiveForks == {i \in Forks : ~done[i]}

ActiveSpread ==
    MaxOf({iteratorIndexPositions[i] : i \in ActiveForks})
        - MinOf({iteratorIndexPositions[i] : i \in ActiveForks})

\* C4: once a fork has been stopped, a next() of a remaining fork that
\* returns a value leaves the buffer no longer than the spread between the
\* fastest and the slowest fork still active.
C4_StopDoesNotStarveTrim ==
    [][(/\ \E i \in Forks : stopped[i]
        /\ op' = "next" /\ res' = "value" /\ ~done[who'])
       => Len(streamBuffer') <= ActiveSpread']_vars

\* C27: return() on a fork sets only that fork's done flag: it makes no call
\* on the source and leaves the shared buffer, the read positions, the cached
\* exhaustion and error and the siblings' done flags unchanged, a second
\* return() changes nothing, and every later next() on the fork returns done
\* without consulting the buffer or the source.
C27_ReturnFrame ==
    [][/\ op' = "return" =>
             /\ done' = [done EXCEPT ![who'] = TRUE]
             /\ UNCHANGED <<srcCalls, streamBuffer, iteratorIndexPositions,
                            streamExhausted, streamError>>
       /\ (op' = "next" /\ stopped[who']) =>
             /\ res' = "done"
             /\ UNCHANGED <<srcCalls, streamBuffer, iteratorIndexPositions,
                            streamExhausted, streamError, done>>]_vars

\* A fork that was stopped has answered done to next() while the buffer held
\* an element it had not read, the source was not exhausted and a sibling
\* was not done.
C27_Witness ==
    /\ op = "next" /\ res = "done" /\ who \in Forks /\ stopped[who]
    /\ iteratorIndexPositions[who] < Len(streamBuffer)
    /\ ~streamExhausted
    /\ \E j \in Forks : ~done[j]

(* --------------------------- asynchronous tee ------------------------- *)

\* mutant: the helpers' trim leaves the positions where they were
helpersCleanupStreamBuffer_noShift(positions, buffer) ==
    LET deletedElementsCount == MinOf({positions[i] : i \in DOMAIN positions})
    IN  [pos |-> positions,
         buf |-> SubSeq(buffer, deletedElementsCount + 1, Len(buffer))]

\* makeTeeBufferHelpers(count).cleanupStreamBuffer(), the trim the
\* asynchronous tee uses.
helpersCleanupStreamBuffer(positions, buffer) ==
    LET deletedElementsCount == MinOf({positions[i] : i \in DOMAIN positions})
    IN  [pos |-> [i \in DOMAIN positions |-> positions[i] - deletedElementsCount],
         buf |-> SubSeq(buffer, deletedElementsCount + 1, Len(buffer))]

\* A call of fork i's async next(), up to its first suspension: the fork's
\* done flag and the buffer are consulted; past the buffer's end
\* getNextStreamElementAsync() runs until it returns the cached exhaustion,
\* throws the cached error, or has called sourceIterator.next() and awaits it.
ATeeNextStart(i) ==
    /\ UNCHANGED pipeVars
    /\ pending[i].pc = "idle"
    /\ UNCHANGED <<srcItems, srcTail, count, stopped, streamExhausted,
                   streamError, done>>
    /\ IF done[i]
       THEN /\ who' = i /\ op' = "next" /\ res' = "done" /\ late' = FALSE
            /\ UNCHANGED <<srcCalls, iteratorIndexPositions, streamBuffer,
                           forkOut, asyncTeeVars>>
       ELSE IF iteratorIndexPositions[i] < Len(streamBuffer)
       THEN LET value == streamBuffer[iteratorIndexPositions[i] + 1]
                c == helpersCleanupStreamBuffer(
                        [iteratorIndexPositions EXCEPT ![i] = @ + 1],
                        streamBuffer)
            IN  /\ iteratorIndexPositions' = c.pos
                /\ streamBuffer' = c.buf
                /\ forkOut' = [forkOut EXCEPT ![i] = Append(@, value)]
                /\ who' = i /\ op' = "next" /\ res' = "value" /\ late' = FALSE
                /\ UNCHANGED <<srcCalls, asyncTeeVars>>
       ELSE /\ UNCHANGED <<iteratorIndexPositions, streamBuffer, forkOut,
                           who, op, res, late>>
            /\ IF streamExhausted
               THEN /\ pending' = [pending EXCEPT ![i] =
                           [pc |-> "gotResult", kind |-> "done", value |-> 0,
                            late |-> AtFailurePoint(i)]]
                    /\ readyQueue' = Append(readyQueue, i)
                    /\ UNCHANGED <<srcCalls, srcQueue>>
               ELSE IF streamError # NoError
               THEN /\ pending' = [pending EXCEPT ![i] =
                           [pc |-> "gotResult", kind |-> "throw", value |-> 0,
                            late |-> AtFailurePoint(i)]]
                    /\ readyQueue' = Append(readyQueue, i)
                    /\ UNCHANGED <<srcCalls, srcQueue>>
               ELSE LET r == SourceOutcome(srcCalls + 1)
                    IN  /\ srcCalls' = srcCalls + 1
                        /\ srcQueue' = Append(srcQueue, i)
                        /\ UNCHANGED readyQueue
                        /\ pending' = [pending EXCEPT ![i] =
                              [pc |-> "awaitSource", kind |-> r.kind,
                               value |-> r.value, late |-> FALSE]]

\* The oldest pending sourceIterator.next() settles and
\* getNextStreamElementAsync() resumes: it caches exhaustion or the error
\* and hands the result to the fork's next().
ATeeSourceSettle ==
    /\ UNCHANGED pipeVars
    /\ srcQueue # <<>>
    /\ LET i == Head(srcQueue)
       IN  /\ pending[i].pc = "awaitSource"
           /\ srcQueue' = Tail(srcQueue)
           /\ readyQueue' = Append(readyQueue, i)
           /\ pending' = [pending EXCEPT ![i].pc = "gotResult"]
           /\ streamExhausted' =
                 IF pending[i].kind = "done" THEN TRUE ELSE streamExhausted
           /\ streamError' =
                 IF pending[i].kind = "throw" THEN "e" ELSE streamError
    /\ UNCHANGED <<srcVars, count, iteratorIndexPositions, streamBuffer, done,
                   teeObs>>

\* Fork i's next() resumes with the result of getNextStreamElementAsync();
\* resumptions run in the order they were scheduled.
ATeeNextResume(i) ==
    /\ UNCHANGED pipeVars
    /\ readyQueue # <<>> /\ i = Head(readyQueue)
    /\ pending[i].pc = "gotResult"
    /\ readyQueue' = Tail(readyQueue)
    /\ pending' = [pending EXCEPT ![i] = Idle]
    /\ who' = i /\ op' = "next" /\ res' = pending[i].kind
    /\ late' = pending[i].late
    /\ UNCHANGED <<srcVars, count, streamExhausted, streamError, stopped,
                   srcQueue>>
    /\ IF pending[i].kind = "throw"
       THEN UNCHANGED <<iteratorIndexPositions, streamBuffer, done, forkOut>>
       ELSE IF pending[i].kind = "done"
       THEN /\ done' = [done EXCEPT ![i] = TRUE]
            /\ UNCHANGED <<iteratorIndexPositions, streamBuffer, forkOut>>
       ELSE LET c == helpersCleanupStreamBuffer(
                        [iteratorIndexPositions EXCEPT ![i] = @ + 1],
                        Append(streamBuffer, pending[i].value))
            IN  /\ iteratorIndexPositions' = c.pos
                /\ streamBuffer' = c.buf
                /\ forkOut' = [forkOut EXCEPT
                                  ![i] = Append(@, pending[i].value)]
                /\ UNCHANGED done

\* async return(value) of fork i.
ATeeReturn(i) ==
    /\ UNCHANGED pipeVars
    /\ who' = i /\ op' = "return" /\ res' = "done" /\ late' = FALSE
    /\ done' = [done EXCEPT ![i] = TRUE]
    /\ stopped' = [stopped EXCEPT ![i] = TRUE]
    /\ UNCHANGED <<srcVars, count, iteratorIndexPositions, streamBuffer,
                   streamExhausted, streamError, forkOut, asyncTeeVars>>

\* async throw(e) of fork i.
ATeeThrow(i) ==
    /\ UNCHANGED pipeVars
    /\ who' = i /\ op' = "throw" /\ res' = "throw" /\ late' = FALSE
    /\ done' = [done EXCEPT ![i] = TRUE]
    /\ stopped' = [stopped EXCEPT ![i] = TRUE]
    /\ UNCHANGED <<srcVars, count, iteratorIndexPositions, streamBuffer,
                   streamExhausted, streamError, forkOut, asyncTeeVars>>

\* createAsyncTeeIterators(source, count) for a count >= 1.
InitAsyncTee == InitTee

NextAsyncTee ==
    \/ \E i \in 1..count : ATeeNextStart(i)
    \/ ATeeSourceSettle
    \/ \E i \in 1..count : ATeeNextResume(i)
    \/ \E i \in 1..count : ATeeReturn(i)
    \/ \E i \in 1..count : ATeeThrow(i)

SpecAsyncTee == InitAsyncTee /\ [][NextAsyncTee]_vars

(* ----------------------- claims: asynchronous tee --------------------- *)

\* C5: once the source's next() has thrown e, the source is not called again
\* and every next() started afterwards on a fork that is not done and has
\* read the whole buffer throws e.
C5_StickyError ==
    [][/\ streamError # NoError => srcCalls' = srcCalls
       /\ (op' = "next" /\ late') => res' = "throw"]_vars

\* C6: under every interleaving, a next() issued while another fork's pull of
\* the source is pending included, the values a fork has yielded are the
\* source's values in source order, none skipped and none twice.
C6_AsyncForkSeesSourcePrefix ==
    \A i \in Forks : IsPrefix(forkOut[i], srcItems)

\* C26: in every reachable state of an asynchronous tee group at most one
\* call of the underlying source's next() is pending: two forks that both
\* find the shared buffer exhausted never each start a pull of their own.
C26_SingleFlight == Len(srcQueue) <= 1

(* ------------------------- callbacks and values ----------------------- *)

\* JavaScript values that are no number, as integers below 0.
JSFalse == -1

JSTrue == -2

JSUndefined == -3

\* an object or a string, such as the {} the synchronous chain hands a reducer
JSOther == -4

\* no value: the callback threw, or the promise it returned has rejected
JSThrown == -5

\* NaN, the result of arithmetic on undefined
JSNaN == -6

\* ToBoolean(v)
Truthy(v) == v \notin {0, JSFalse, JSUndefined, JSNaN}

\* The callbacks a caller attaches, by kind of operation.
MapFns == {"inc"}

FilterFns == {"isOdd", "mod2"}

ForEachFns == {"retFalse"}

ReduceFns == {"sum"}

\* The predicates handed to takeWhile and dropWhile.
PredFns == {"isOdd", "mod2"}

\* The callbacks that fail for some elements, and a filter that lets them by.
RejectingFns == {"throwOdd", "throwEven"}

EvenFns == {"isEven"}

\* fn(undefined, idx): arithmetic on undefined yields NaN, and NaN equals
\* nothing.
CallbackOfUndefined(fn) ==
    CASE fn \in {"inc", "mod2"} -> JSNaN
      [] fn \in {"isOdd", "isEven", "retFalse"} -> JSFalse
      [] OTHER -> JSUndefined

\* fn(x, idx) of a map, filter, forEach callback or predicate.
Callback(fn, x, idx) ==
    CASE x = JSUndefined -> CallbackOfUndefined(fn)
      [] x # JSUndefined /\ fn = "inc" -> x + 1
      [] x # JSUndefined /\ fn = "isOdd" -> IF x % 2 = 1 THEN JSTrue ELSE JSFalse
      [] x # JSUndefined /\ fn = "isEven" -> IF x % 2 = 0 THEN JSTrue ELSE JSFalse
      [] x # JSUndefined /\ fn = "mod2" -> x % 2
      [] x # JSUndefined /\ fn = "retFalse" -> JSFalse
      [] x # JSUndefined /\ fn = "throwOdd" -> IF x % 2 = 1 THEN JSThrown ELSE x
      [] x # JSUndefined /\ fn = "throwEven" -> IF x % 2 = 0 THEN JSThrown ELSE x
      [] OTHER -> JSUndefined

\* fn(acc, curr, idx) of a reducer: the sum, a number only for a number acc.
Reducer(fn, acc, curr, idx) ==
    IF acc < 0 THEN JSOther ELSE acc + curr

MapRec(fn) == [kind |-> "map", fn |-> fn, initVal |-> JSUndefined]

FilterRec(fn) == [kind |-> "filter", fn |-> fn, initVal |-> JSUndefined]

ForEachRec(fn) == [kind |-> "forEach", fn |-> fn, initVal |-> JSUndefined]

ReduceRec(fn, initVal) == [kind |-> "reduce", fn |-> fn, initVal |-> initVal]

(* ------------------------- synchronous pipeline ----------------------- *)

\* The pipeline state an operation reads and writes, with the number of
\* callback invocations it has made.
PipeState == [srcCalls |-> srcCalls, index |-> index, exhausted |-> exhausted,
              cb |-> 0, threw |-> FALSE]

\* LazyIterator.executeFunctMethod(method, val, index)
executeFunctMethod(method, val, idx) ==
    IF method.kind = "reduce"
    THEN Reducer(method.fn, JSOther, val, idx)
    ELSE Callback(method.fn, val, idx)

\* The test that ends the chain for an element: retVal === false.
FilterFails(retVal) == retVal = JSFalse

\* mutant: the forEach callback's result replaces the running value
ChainValue_forEachReplaces(method, a, retVal) ==
    IF method.kind \in {"map", "forEach"} THEN retVal ELSE a

\* The running value after a method has run: a map's result replaces it.
ChainValue(method, a, retVal) ==
    IF method.kind = "map" THEN retVal ELSE a

\* The for loop of LazyIterator.next() over this._methods from the i-th on,
\* for the running value a: the value left, whether a filter failed, whether
\* a callback threw (which leaves the loop and next()), and the callback
\* invocations made.
RECURSIVE RunChain(_, _, _, _, _)
RunChain(ms, i, a, idx, calls) ==
    IF i > Len(ms)
    THEN [a |-> a, filterFail |-> FALSE, threw |-> FALSE, calls |-> calls]
    ELSE LET retVal == executeFunctMethod(ms[i], a, idx)
             made == Append(calls, [kind |-> ms[i].kind, fn |-> ms[i].fn,
                                    arg |-> a, idx |-> idx, ret |-> retVal])
         IN  IF retVal = JSThrown
             THEN [a |-> a, filterFail |-> FALSE, threw |-> TRUE,
                   calls |-> made]
             ELSE IF ms[i].kind = "filter" /\ FilterFails(retVal)
             THEN [a |-> a, filterFail |-> TRUE, threw |-> FALSE,
                   calls |-> made]
             ELSE RunChain(ms, i + 1, ChainValue(ms[i], a, retVal), idx, made)

\* mutant: a callback's exception marks the pipeline exhausted
Thrown_exhausts(pulled, calls) ==
    [pulled EXCEPT !.cb = @ + Len(calls), !.threw = TRUE, !.exhausted = TRUE]

\* The pipeline as an exception thrown by a callback leaves it: the raw
\* element has been pulled and nothing else of next() has run.
Thrown(pulled, calls) ==
    [pulled EXCEPT !.cb = @ + Len(calls), !.threw = TRUE]

\* The while loop of LazyIterator.next(): raw elements are pulled until the
\* source is done or one survives the chain; an exception thrown by a
\* callback leaves next() before this.index++.
RECURSIVE NextLoop(_, _, _)
NextLoop(s, ms, elems) ==
    LET nextVal == SourceOutcome(s.srcCalls + 1)
        pulled == [s EXCEPT !.srcCalls = @ + 1]
    IN  IF nextVal.kind = "done"
        THEN [kind |-> "done", value |-> JSUndefined,
              s |-> [pulled EXCEPT !.exhausted = TRUE], elems |-> elems]
        ELSE IF Len(ms) = 0
        THEN [kind |-> "value", value |-> nextVal.value, s |-> pulled,
              elems |-> Append(elems, [raw |-> nextVal.value, ms |-> ms,
                                       calls |-> <<>>, yielded |-> TRUE])]
        ELSE LET r == RunChain(ms, 1, nextVal.value, s.index, <<>>)
                 after == [pulled EXCEPT !.index = @ + 1,
                                         !.cb = @ + Len(r.calls)]
                 elem == [raw |-> nextVal.value, ms |-> ms, calls |-> r.calls,
                          yielded |-> ~r.filterFail /\ ~r.threw]
             IN  IF r.threw
                 THEN [kind |-> "throw", value |-> nextVal.value,
                       s |-> Thrown(pulled, r.calls),
                       elems |-> Append(elems, elem)]
                 ELSE IF r.filterFail
                 THEN NextLoop(after, ms, Append(elems, elem))
                 ELSE [kind |-> "value", value |-> r.a, s |-> after,
                       elems |-> Append(elems, elem)]

\* mutant: an exhausted pipeline asks its source again
LazyNext_noExhaustedCheck(s, ms) == NextLoop(s, ms, <<>>)

\* LazyIterator.next() on the pipeline in state s.
LazyNext(s, ms) ==
    IF s.exhausted
    THEN [kind |-> "done", value |-> JSUndefined, s |-> s, elems |-> <<>>]
    ELSE NextLoop(s, ms, <<>>)

\* this.return(), as for...of calls it when its body breaks.
LazyReturned(s) == [s EXCEPT !.exhausted = TRUE]

\* collect(): for (const elem of this) out.push(elem); an exception thrown
\* by next() leaves the loop, and for...of does not call this.return() then.
RECURSIVE CollectLoop(_, _, _)
CollectLoop(s, ms, out) ==
    LET r == LazyNext(s, ms)
    IN  IF r.kind # "value"
        THEN [out |-> out, s |-> r.s]
        ELSE CollectLoop(r.s, ms, Append(out, r.value))

\* take(n): for (const elem of this) { if (count++ >= n) break; out.push(elem) }
RECURSIVE TakeLoop(_, _, _, _, _)
TakeLoop(s, ms, n, cnt, out) ==
    LET r == LazyNext(s, ms)
    IN  IF r.kind # "value"
        THEN [out |-> out, s |-> r.s]
        ELSE IF cnt >= n
        THEN [out |-> out, s |-> LazyReturned(r.s)]
        ELSE TakeLoop(r.s, ms, n, cnt + 1, Append(out, r.value))

\* drop(n): for (const elem of this) { if (count++ < n) continue; out.push(elem) }
RECURSIVE DropLoop(_, _, _, _, _)
DropLoop(s, ms, n, cnt, out) ==
    LET r == LazyNext(s, ms)
    IN  IF r.kind # "value"
        THEN [out |-> out, s |-> r.s]
        ELSE DropLoop(r.s, ms, n, cnt + 1,
                      IF cnt < n THEN out ELSE Append(out, r.value))

\* mutant: the element that fails the predicate is kept
RECURSIVE TakeWhileLoop_keepsFailing(_, _, _, _, _)
TakeWhileLoop_keepsFailing(s, ms, pred, idx, out) ==
    LET r == LazyNext(s, ms)
    IN  IF r.kind # "value"
        THEN [out |-> out, s |-> r.s]
        ELSE IF ~Truthy(Callback(pred, r.value, idx))
        THEN [out |-> Append(out, r.value), s |-> LazyReturned(r.s)]
        ELSE TakeWhileLoop_keepsFailing(r.s, ms, pred, idx + 1,
                                        Append(out, r.value))

\* takeWhile(predicate)
RECURSIVE TakeWhileLoop(_, _, _, _, _)
TakeWhileLoop(s, ms, pred, idx, out) ==
    LET r == LazyNext(s, ms)
    IN  IF r.kind # "value"
        THEN [out |-> out, s |-> r.s]
        ELSE IF ~Truthy(Callback(pred, r.value, idx))
        THEN [out |-> out, s |-> LazyReturned(r.s)]
        ELSE TakeWhileLoop(r.s, ms, pred, idx + 1, Append(out, r.value))

\* mutant: dropping resumes whenever the predicate holds again
RECURSIVE DropWhileLoop_resumes(_, _, _, _, _, _)
DropWhileLoop_resumes(s, ms, pred, idx, dropping, out) ==
    LET r == LazyNext(s, ms)
    IN  IF r.kind # "value"
        THEN [out |-> out, s |-> r.s]
        ELSE IF Truthy(Callback(pred, r.value, idx))
        THEN DropWhileLoop_resumes(r.s, ms, pred, idx + 1, TRUE, out)
        ELSE DropWhileLoop_resumes(r.s, ms, pred, idx + 1, FALSE,
                                   Append(out, r.value))

\* dropWhile(predicate)
RECURSIVE DropWhileLoop(_, _, _, _, _, _)
DropWhileLoop(s, ms, pred, idx, dropping, out) ==
    LET r == LazyNext(s, ms)
    IN  IF r.kind # "value"
        THEN [out |-> out, s |-> r.s]
        ELSE IF dropping /\ Truthy(Callback(pred, r.value, idx))
        THEN DropWhileLoop(r.s, ms, pred, idx + 1, TRUE, out)
        ELSE DropWhileLoop(r.s, ms, pred, idx + 1, FALSE,
                           Append(out, r.value))

\* The pipeline after an operation that left it in state s.
PipeBecomes(s) ==
    /\ srcCalls' = s.srcCalls
    /\ index' = s.index
    /\ exhausted' = s.exhausted

\* What plast holds after operation o with argument a.
Did(o, a) == [NoOp EXCEPT !.op = o, !.arg = a, !.preExh = exhausted]

\* it.next()
LazyIteratorNext ==
    /\ cls = "LazyIterator"
    /\ LET r == LazyNext(PipeState, methods)
       IN  /\ PipeBecomes(r.s)
           /\ plast' = [Did("next", "none") EXCEPT
                           !.kind = r.kind, !.value = r.value,
                           !.elems = r.elems, !.cb = r.s.cb,
                           !.src = r.s.srcCalls - srcCalls]
    /\ UNCHANGED <<srcItems, srcTail, cls, methods, teeAll, asyncPipeVars>>

\* it.return(value)
LazyIteratorReturn ==
    /\ cls = "LazyIterator"
    /\ exhausted' = TRUE
    /\ plast' = [Did("return", "none") EXCEPT !.kind = "done"]
    /\ UNCHANGED <<srcVars, cls, methods, index, teeAll, asyncPipeVars>>

\* it.throw(e)
LazyIteratorThrow ==
    /\ cls = "LazyIterator"
    /\ exhausted' = TRUE
    /\ plast' = [Did("throw", "none") EXCEPT !.kind = "done"]
    /\ UNCHANGED <<srcVars, cls, methods, index, teeAll, asyncPipeVars>>

\* The longest operation list the model attaches.
MaxOps == 2

\* mutant: attaching runs the callback on the next element at once
Attach_eager(rec) ==
    /\ Len(methods) < MaxOps
    /\ methods' = Append(methods, rec)
    /\ LET r == LazyNext(PipeState, <<rec>>)
       IN  /\ PipeBecomes(r.s)
           /\ plast' = [Did(rec.kind, rec.fn) EXCEPT
                           !.cb = r.s.cb, !.src = r.s.srcCalls - srcCalls]
    /\ UNCHANGED <<srcItems, srcTail, cls, teeAll, asyncPipeVars>>

\* mutant: the record is pushed onto the list of a copy, which is returned
Attach_onCopy(rec) ==
    /\ Len(methods) < MaxOps
    /\ plast' = [Did(rec.kind, rec.fn) EXCEPT !.ret = "copy"]
    /\ UNCHANGED <<srcVars, cls, methods, exhausted, index, teeAll,
                   asyncPipeVars>>

\* this._methods.push({fn, kind}) of map, filter, forEach and reduce, which
\* return this, reduce a new ReduceExecutor(this).
Attach(rec) ==
    /\ Len(methods) < MaxOps
    /\ methods' = Append(methods, rec)
    /\ plast' = [Did(rec.kind, rec.fn) EXCEPT
                    !.ret = IF rec.kind = "reduce"
                            THEN "ReduceExecutor" ELSE "this"]
    /\ UNCHANGED <<srcVars, cls, exhausted, index, teeAll, asyncPipeVars>>

\* it.map(cb)
LazyIteratorMap(fn) == cls = "LazyIterator" /\ Attach(MapRec(fn))

\* it.filter(cb)
LazyIteratorFilter(fn) == cls = "LazyIterator" /\ Attach(FilterRec(fn))

\* it.forEach(cb)
LazyIteratorForEach(fn) == cls = "LazyIterator" /\ Attach(ForEachRec(fn))

\* it.reduce(cb, initVal): the record is pushed and a ReduceExecutor made.
LazyIteratorReduce(fn, initVal) ==
    cls = "LazyIterator" /\ Attach(ReduceRec(fn, initVal))

\* take(n) and drop(n) of either class, takeSettled(n) and dropSettled(n)
\* with n < 0: throw new Error('... n must be a non-negative number').
ArgumentError(o, n) ==
    /\ plast' = [Did(o, n) EXCEPT !.kind = "error"]
    /\ UNCHANGED <<srcVars, cls, methods, exhausted, index, asyncPipeVars,
                   teeAll>>

\* A terminal operation o(a) that ran as loop result t.
Terminal(o, a, t) ==
    /\ PipeBecomes(t.s)
    /\ plast' = [Did(o, a) EXCEPT
                    !.kind = IF t.s.threw THEN "throw" ELSE "array",
                    !.out = IF t.s.threw THEN <<>> ELSE t.out,
                    !.cb = t.s.cb,
                                  !.src = t.s.srcCalls - srcCalls]
    /\ UNCHANGED <<srcItems, srcTail, cls, methods, teeAll, asyncPipeVars>>

\* it.collect() and it.toArray()
LazyIteratorCollect ==
    /\ cls = "LazyIterator"
    /\ Terminal("collect", "none", CollectLoop(PipeState, methods, <<>>))

\* mutant: take runs its loop whatever n is
LazyIteratorTake_unchecked(n) ==
    /\ cls = "LazyIterator"
    /\ Terminal("take", n, TakeLoop(PipeState, methods, n, 0, <<>>))

\* it.take(n)
LazyIteratorTake(n) ==
    /\ cls = "LazyIterator"
    /\ IF n < 0
       THEN ArgumentError("take", n)
       ELSE Terminal("take", n, TakeLoop(PipeState, methods, n, 0, <<>>))

\* it.drop(n)
LazyIteratorDrop(n) ==
    /\ cls = "LazyIterator"
    /\ IF n < 0
       THEN ArgumentError("drop", n)
       ELSE Terminal("drop", n, DropLoop(PipeState, methods, n, 0, <<>>))

\* it.takeWhile(predicate)
LazyIteratorTakeWhile(pred) ==
    /\ cls = "LazyIterator"
    /\ Terminal("takeWhile", pred,
                TakeWhileLoop(PipeState, methods, pred, 0, <<>>))

\* it.dropWhile(predicate)
LazyIteratorDropWhile(pred) ==
    /\ cls = "LazyIterator"
    /\ Terminal("dropWhile", pred,
                DropWhileLoop(PipeState, methods, pred, 0, TRUE, <<>>))

\* fn(acc, curr, idx) as array.reduce calls the function of the record it
\* is handed: a reducer, or the callback of another kind of operation.
ReduceCall(method, acc, curr, idx) ==
    IF method.kind = "reduce"
    THEN Reducer(method.fn, acc, curr, idx)
    ELSE Callback(method.fn, acc, curr)

\* mutant: array.reduce(fn) without an initial value
RECURSIVE ArrayReduce_noInitialValue(_, _, _, _)
ArrayReduce_noInitialValue(method, acc, array, i) ==
    IF i > Len(array)
    THEN IF i = 1 THEN JSUndefined ELSE acc
    ELSE ArrayReduce_noInitialValue(
             method,
             IF i = 1 THEN array[1]
                      ELSE ReduceCall(method, acc, array[i], i - 1),
             array, i + 1)

\* array.reduce(fn, initVal) from the i-th element of array on, acc being
\* the value accumulated so far.
RECURSIVE ArrayReduce(_, _, _, _)
ArrayReduce(method, acc, array, i) ==
    IF i > Len(array)
    THEN acc
    ELSE ArrayReduce(method, ReduceCall(method, acc, array[i], i - 1),
                     array, i + 1)

\* The pipeline has handed out a ReduceExecutor: reduce() has been called.
HasReduceExecutor == \E i \in 1..Len(methods) : methods[i].kind = "reduce"

\* it.reduce(cb, initVal).execute(): ReduceExecutor.execute()
LazyIteratorExecute ==
    /\ cls = "LazyIterator"
    /\ HasReduceExecutor
    /\ LET reduceMethod == methods[Len(methods)]
           t == CollectLoop(PipeState, methods, <<>>)
       IN  /\ PipeBecomes(t.s)
           /\ plast' = [Did("execute", reduceMethod) EXCEPT
                           !.kind = IF t.s.threw THEN "throw" ELSE "value",
                           !.value = IF t.s.threw
                                     THEN 0
                                     ELSE ArrayReduce(reduceMethod,
                                                      reduceMethod.initVal,
                                                      t.out, 1),
                           !.out = IF t.s.threw THEN <<>> ELSE t.out,
                           !.cb = t.s.cb,
                           !.src = t.s.srcCalls - srcCalls]
    /\ UNCHANGED <<srcItems, srcTail, cls, methods, teeAll, asyncPipeVars>>

\* No tee group is part of the behaviour.
NoTee ==
    /\ count = 0
    /\ iteratorIndexPositions = <<>> /\ streamBuffer = <<>>
    /\ streamExhausted = FALSE /\ streamError = NoError
    /\ done = <<>> /\ forkOut = <<>> /\ stopped = <<>>
    /\ who = 0 /\ op = "none" /\ res = "none" /\ late = FALSE
    /\ pending = <<>> /\ srcQueue = <<>> /\ readyQueue = <<>>

\* LazyIterator.from(source) for a source that yields srcItems and is done.
InitLazy ==
    /\ srcItems \in SeqsUpTo(Values, MaxLen)
    /\ srcTail = "done"
    /\ srcCalls = 0
    /\ cls = "LazyIterator"
    /\ methods = <<>>
    /\ exhausted = FALSE
    /\ index = 0
    /\ plast = NoOp
    /\ inflight = <<>> /\ term = NoTerm
    /\ NoTee

NextLazy ==
    \/ LazyIteratorNext
    \/ LazyIteratorReturn
    \/ LazyIteratorThrow
    \/ \E fn \in MapFns : LazyIteratorMap(fn)
    \/ \E fn \in FilterFns : LazyIteratorFilter(fn)
    \/ \E fn \in ForEachFns : LazyIteratorForEach(fn)
    \/ \E fn \in ReduceFns : LazyIteratorReduce(fn, 0)
    \/ LazyIteratorCollect
    \/ \E n \in 0..MaxLen : LazyIteratorTake(n)
    \/ \E n \in 0..MaxLen : LazyIteratorDrop(n)
    \/ \E pred \in PredFns : LazyIteratorTakeWhile(pred)
    \/ \E pred \in PredFns : LazyIteratorDropWhile(pred)

SpecLazy == InitLazy /\ [][NextLazy]_vars

(* --------------------- claims: synchronous pipeline ------------------- *)

\* C8: in LazyIterator.next(), an element for which a filter callback
\* returned a falsy result is not yielded and the operations after that
\* filter are not run for it.
C8_FalsyFilterDropsElement ==
    (cls = "LazyIterator" /\ plast.op = "next") =>
        \A e \in 1..Len(plast.elems) :
            \A c \in 1..Len(plast.elems[e].calls) :
                LET call == plast.elems[e].calls[c]
                IN  (call.kind = "filter" /\ ~Truthy(call.ret)) =>
                        /\ ~plast.elems[e].yielded
                        /\ c = Len(plast.elems[e].calls)

(* ------------------------ asynchronous pipeline ----------------------- *)

\* The concurrency a caller hands a terminal operation; a caller keeps at
\* most as many next() calls of its own in flight.
Widths == {1, 2}

\* The callbacks a caller attaches with filter and with filterAsync.
AsyncFilterFns == {"mod2"}

FilterAsyncFns == {"isOdd"}

MapAsyncRec(fn) == [kind |-> "mapAsync", fn |-> fn, initVal |-> JSUndefined]

FilterAsyncRec(fn) ==
    [kind |-> "filterAsync", fn |-> fn, initVal |-> JSUndefined]

ForEachAsyncRec(fn) ==
    [kind |-> "forEachAsync", fn |-> fn, initVal |-> JSUndefined]

\* { done: true, value: undefined }
DoneResult == [kind |-> "done", value |-> JSUndefined]

NoResult == [kind |-> "none", value |-> 0]

\* A next() call of the asynchronous pipeline. pc: it awaits the source's
\* result ("source"), it awaits the result of the callback of the mi-th
\* operation ("op"), or its promise is settled ("fulfilled", "rejected"). log holds the
\* callbacks invoked for the raw element in hand, nms the length of the
\* operation list when the chain ended; preExh and src record the exhausted
\* flag the call started with and the calls of the source's next() it made,
\* endExh the exhausted flag at the time the call was rejected.
NoCall == [pc |-> "none", nextResult |-> NoResult, raw |-> 0, opResult |-> 0,
           mi |-> 0, retVal |-> 0, log |-> <<>>, nms |-> 0, res |-> NoResult,
           preExh |-> FALSE, src |-> 0, endExh |-> FALSE]

\* mutant: the asynchronous pipeline asks its source again when exhausted
AsyncNextStart_noExhaustedCheck(exh, c) ==
    [NoCall EXCEPT !.pc = "source", !.nextResult = SourceOutcome(c),
                   !.src = 1, !.preExh = exh]

\* next() up to its first await: the exhausted check, then getNextElement(),
\* which makes the c-th call of the source's next().
AsyncNextStart(exh, c) ==
    IF exh
    THEN [NoCall EXCEPT !.pc = "fulfilled", !.res = DoneResult,
                        !.preExh = TRUE]
    ELSE [NoCall EXCEPT !.pc = "source", !.nextResult = SourceOutcome(c),
                        !.src = 1]

\* LazyAsyncIterator.executeChainedMethod(method, value, index)
executeChainedMethod(method, value, idx) == Callback(method.fn, value, idx)

\* LazyAsyncIterator.executeReduceMethod(method, value, index, initVal)
executeReduceMethod(method, value, idx, initVal) ==
    Reducer(method.fn, initVal, value, idx)

\* The test that ends the chain for an element: !retVal.
AsyncFilterFails(retVal) == ~Truthy(retVal)

\* mutant: the result of a forEachAsync callback replaces opResult
AsyncChainValue_forEachReplaces(method, opResult, retVal) ==
    IF method.kind \in {"map", "mapAsync", "forEachAsync"}
    THEN retVal
    ELSE opResult

\* opResult after a method's result has arrived.
AsyncChainValue(method, opResult, retVal) ==
    IF method.kind \in {"map", "mapAsync"} THEN retVal ELSE opResult

\* The for loop of next() over this.methods from the i-th on, up to its next
\* await: a reduce record is run on the spot, the callback of any other
\* record is invoked and its result awaited; past the last record the call
\* is settled with opResult.
RECURSIVE ChainFrom(_, _, _, _)
ChainFrom(call, ms, i, idx) ==
    IF i > Len(ms)
    THEN [call EXCEPT !.pc = "fulfilled", !.nms = Len(ms),
                      !.res = [kind |-> "value", value |-> call.opResult]]
    ELSE IF ms[i].kind = "reduce"
    THEN LET ret == executeReduceMethod(ms[i], call.opResult, idx,
                                        ms[i].initVal)
         IN  ChainFrom([call EXCEPT !.log = Append(@,
                           [kind |-> "reduce", fn |-> ms[i].fn,
                            arg |-> call.opResult, idx |-> idx, ret |-> ret])],
                       ms, i + 1, idx)
    ELSE LET retVal == executeChainedMethod(ms[i], call.opResult, idx)
         IN  [call EXCEPT !.pc = "op", !.mi = i, !.retVal = retVal,
                          !.log = Append(@,
                              [kind |-> ms[i].kind, fn |-> ms[i].fn,
                               arg |-> call.opResult, idx |-> idx,
                               ret |-> retVal])]

\* The calls in flight without the k-th.
Without(k) ==
    [j \in 1..(Len(inflight) - 1) |->
        IF j < k THEN inflight[j] ELSE inflight[j + 1]]

\* What plast holds once a next() of the caller has settled as call.
Settled(call) ==
    [NoOp EXCEPT !.op = "next", !.kind = call.res.kind,
                 !.value = call.res.value,
                 !.elems = IF call.res.kind = "value"
                           THEN <<[raw |-> call.raw,
                                   ms |-> SubSeq(methods, 1, call.nms),
                                   calls |-> call.log, yielded |-> TRUE]>>
                           ELSE <<>>,
                 !.preExh = call.preExh, !.cb = Len(call.log),
                 !.src = call.src]

\* The k-th call in flight becomes call: a settled call of the caller is
\* reported, a settled call of a terminal operation waits for its batch.
CallBecomes(k, call) ==
    IF call.pc \in {"fulfilled", "rejected"} /\ term.op = "none"
    THEN inflight' = Without(k) /\ plast' = Settled(call)
    ELSE inflight' = [inflight EXCEPT ![k] = call] /\ UNCHANGED plast

\* it.next() of the caller, up to its first await
LazyAsyncIteratorNext ==
    /\ cls = "LazyAsyncIterator"
    /\ term.op = "none"
    /\ Len(inflight) < MaxOf(Widths)
    /\ LET call == AsyncNextStart(exhausted, srcCalls + 1)
       IN  /\ srcCalls' = srcCalls + call.src
           /\ IF call.pc = "fulfilled"
              THEN plast' = Settled(call) /\ UNCHANGED inflight
              ELSE inflight' = Append(inflight, call) /\ UNCHANGED plast
    /\ UNCHANGED <<srcItems, srcTail, cls, methods, exhausted, index, term,
                   teeAll>>

\* next() resumes with the result of getNextElement()
LazyAsyncNextSource(k) ==
    /\ cls = "LazyAsyncIterator"
    /\ inflight[k].pc = "source"
    /\ LET nextResult == inflight[k].nextResult
           got == [inflight[k] EXCEPT !.nextResult = NoResult,
                                      !.raw = nextResult.value,
                                      !.opResult = nextResult.value,
                                      !.log = <<>>]
       IN  IF nextResult.kind = "throw"
           THEN \* the await throws: next() rejects with the source's error
                /\ CallBecomes(k, [got EXCEPT
                       !.pc = "rejected", !.raw = 0, !.opResult = 0,
                       !.endExh = exhausted,
                       !.res = [kind |-> "rejected", value |-> 0]])
                /\ UNCHANGED <<exhausted, index>>
           ELSE IF nextResult.kind = "done"
           THEN /\ exhausted' = TRUE
                /\ CallBecomes(k, [got EXCEPT !.pc = "fulfilled",
                                              !.raw = 0, !.opResult = 0,
                                              !.res = DoneResult])
                /\ UNCHANGED index
           ELSE IF Len(methods) = 0
           THEN /\ CallBecomes(k, [got EXCEPT
                        !.pc = "fulfilled",
                        !.res = [kind |-> "value",
                                 value |-> nextResult.value]])
                /\ UNCHANGED <<exhausted, index>>
           ELSE LET call == ChainFrom(got, methods, 1, index)
                IN  /\ CallBecomes(k, call)
                    /\ index' = IF call.pc = "fulfilled"
                                THEN index + 1 ELSE index
                    /\ UNCHANGED exhausted
    /\ UNCHANGED <<srcVars, cls, methods, term, teeAll>>

\* next() resumes with the result of the callback it awaited
LazyAsyncNextOp(k) ==
    /\ cls = "LazyAsyncIterator"
    /\ inflight[k].pc = "op"
    /\ LET method == methods[inflight[k].mi]
           retVal == inflight[k].retVal
           held == [inflight[k] EXCEPT
                       !.opResult = AsyncChainValue(method, @, retVal),
                       !.mi = 0, !.retVal = 0]
       IN  IF retVal = JSThrown
           THEN \* the await throws: next() rejects, this.index++ is not run
                /\ CallBecomes(k, [held EXCEPT
                       !.pc = "rejected", !.opResult = 0,
                       !.endExh = exhausted,
                       !.res = [kind |-> "rejected",
                                value |-> inflight[k].raw]])
                /\ UNCHANGED <<index, srcCalls>>
           ELSE IF method.kind \in {"filter", "filterAsync"}
              /\ AsyncFilterFails(retVal)
           THEN \* filterFail: this.index++, and the while loop pulls again
                /\ index' = index + 1
                /\ srcCalls' = srcCalls + 1
                /\ inflight' = [inflight EXCEPT ![k] =
                       [held EXCEPT !.pc = "source", !.src = @ + 1,
                                    !.nextResult =
                                        SourceOutcome(srcCalls + 1)]]
                /\ UNCHANGED plast
           ELSE LET call == ChainFrom(held, methods, inflight[k].mi + 1,
                                      index)
                IN  /\ CallBecomes(k, call)
                    /\ index' = IF call.pc = "fulfilled"
                                THEN index + 1 ELSE index
                    /\ UNCHANGED srcCalls
    /\ UNCHANGED <<srcItems, srcTail, cls, methods, exhausted, term, teeAll>>

\* it.return(value)
LazyAsyncIteratorReturn ==
    /\ cls = "LazyAsyncIterator"
    /\ exhausted' = TRUE
    /\ plast' = [Did("return", "none") EXCEPT !.kind = "done"]
    /\ UNCHANGED <<srcVars, cls, methods, index, asyncPipeVars, teeAll>>

\* it.throw(e)
LazyAsyncIteratorThrow ==
    /\ cls = "LazyAsyncIterator"
    /\ exhausted' = TRUE
    /\ plast' = [Did("throw", "none") EXCEPT !.kind = "done"]
    /\ UNCHANGED <<srcVars, cls, methods, index, asyncPipeVars, teeAll>>

\* it.map(cb)
LazyAsyncIteratorMap(fn) == cls = "LazyAsyncIterator" /\ Attach(MapRec(fn))

\* it.filter(cb)
LazyAsyncIteratorFilter(fn) ==
    cls = "LazyAsyncIterator" /\ Attach(FilterRec(fn))

\* it.forEach(cb)
LazyAsyncIteratorForEach(fn) ==
    cls = "LazyAsyncIterator" /\ Attach(ForEachRec(fn))

\* it.mapAsync(cb)
LazyAsyncIteratorMapAsync(fn) ==
    cls = "LazyAsyncIterator" /\ Attach(MapAsyncRec(fn))

\* it.filterAsync(cb)
LazyAsyncIteratorFilterAsync(fn) ==
    cls = "LazyAsyncIterator" /\ Attach(FilterAsyncRec(fn))

\* it.forEachASync(cb)
LazyAsyncIteratorForEachASync(fn) ==
    cls = "LazyAsyncIterator" /\ Attach(ForEachAsyncRec(fn))

\* it.reduce(cb, initVal): the record is pushed and a ReduceExecutor made.
LazyAsyncIteratorReduce(fn, initVal) ==
    cls = "LazyAsyncIterator" /\ Attach(ReduceRec(fn, initVal))

\* _batchNext(w): w next() calls are started one after the other.
\* mutant: a batch issues one next() call more than the concurrency
batchNext_oneMore(w) ==
    /\ inflight' = [j \in 1..(w + 1) |->
                       AsyncNextStart(exhausted, srcCalls + j)]
    /\ srcCalls' = IF exhausted THEN srcCalls ELSE srcCalls + w + 1

\* The number of passes of the loop `for (let i = 0; i < concurrency; i++)`.
Passes(concurrency) == IF concurrency > 0 THEN concurrency ELSE 0

batchNext(w) ==
    /\ inflight' = [j \in 1..w |-> AsyncNextStart(exhausted, srcCalls + j)]
    /\ srcCalls' = IF exhausted THEN srcCalls ELSE srcCalls + Passes(w)

\* mutant: a rejected result is pushed as a fulfilled one
SettledEntry_allFulfilled(r) ==
    [status |-> "fulfilled", done |-> r.kind = "done", value |-> r.value]

\* A PromiseSettledResult, as the settled operations push it.
SettledEntry(r) ==
    [status |-> IF r.kind = "rejected" THEN "rejected" ELSE "fulfilled",
     done |-> r.kind = "done", value |-> r.value]

\* The for loop of a terminal operation over the results of a batch, from
\* the k-th on. t holds the operation's locals: out, the counter n (dropped
\* of drop, idx of takeWhile and dropWhile), dropping and done; threw and
\* reason say that it has thrown res.reason; nexts counts the next() calls it
\* has issued, seen lists the results it has been handed and preds the
\* results a settled operation has called its predicate with.
RECURSIVE ForResults(_, _, _)
ForResults(t, results, k) ==
    IF k > Len(results)
    THEN t
    ELSE LET r == results[k]
             push == [t EXCEPT !.out = Append(@, r.value)]
             pushRes == [t EXCEPT !.out = Append(@, SettledEntry(r))]
             throw == [t EXCEPT !.threw = TRUE, !.reason = r.value]
         IN  CASE t.op \in {"collect", "execute"} ->
                    IF r.kind = "rejected"
                    THEN throw
                    ELSE IF r.kind = "done"
                    THEN [t EXCEPT !.done = TRUE]
                    ELSE ForResults(push, results, k + 1)
               [] t.op = "collectSettled" ->
                    IF r.kind = "done"
                    THEN ForResults([t EXCEPT !.done = TRUE], results, k + 1)
                    ELSE ForResults(pushRes, results, k + 1)
               [] t.op = "take" ->
                    IF r.kind = "rejected"
                    THEN throw
                    ELSE IF r.kind = "done"
                    THEN [t EXCEPT !.done = TRUE]
                    ELSE IF Len(push.out) >= t.arg
                    THEN push
                    ELSE ForResults(push, results, k + 1)
               [] t.op = "takeSettled" ->
                    IF r.kind = "done"
                    THEN [t EXCEPT !.done = TRUE]
                    ELSE IF Len(pushRes.out) >= t.arg
                    THEN pushRes
                    ELSE ForResults(pushRes, results, k + 1)
               [] t.op = "drop" ->
                    IF r.kind = "rejected"
                    THEN throw
                    ELSE IF r.kind = "done"
                    THEN [t EXCEPT !.done = TRUE]
                    ELSE IF t.n < t.arg
                    THEN ForResults([t EXCEPT !.n = @ + 1], results, k + 1)
                    ELSE ForResults(push, results, k + 1)
               [] t.op = "dropSettled" ->
                    IF r.kind # "rejected" /\ t.n < t.arg
                    THEN IF r.kind = "done"
                         THEN [t EXCEPT !.done = TRUE]
                         ELSE ForResults([t EXCEPT !.n = @ + 1], results,
                                         k + 1)
                    ELSE IF r.kind = "done"
                    THEN [t EXCEPT !.done = TRUE]
                    ELSE ForResults(pushRes, results, k + 1)
               [] t.op = "takeWhileSettled" ->
                    IF r.kind = "rejected"
                    THEN ForResults(pushRes, results, k + 1)
                    ELSE IF r.kind = "done"
                    THEN [t EXCEPT !.done = TRUE]
                    ELSE IF ~Truthy(Callback(t.arg, r.value, t.n))
                    THEN [t EXCEPT !.done = TRUE, !.preds = Append(@, r)]
                    ELSE ForResults([pushRes EXCEPT !.n = @ + 1,
                                                    !.preds = Append(@, r)],
                                    results, k + 1)
               [] t.op = "dropWhileSettled" ->
                    LET holds == Truthy(Callback(t.arg, r.value, t.n))
                        once == [t EXCEPT !.preds = Append(@, r)]
                        twice == [once EXCEPT !.preds = Append(@, r)]
                    IN  IF r.kind = "rejected"
                        THEN ForResults(pushRes, results, k + 1)
                        ELSE IF ~t.dropping
                        THEN IF r.kind = "done"
                             THEN [t EXCEPT !.done = TRUE]
                             ELSE ForResults(
                                    [t EXCEPT !.out = Append(@, SettledEntry(r)),
                                              !.n = @ + 1],
                                    results, k + 1)
                        \* dropping: the predicate is called before the
                        \* result's done is looked at
                        ELSE IF r.kind = "done"
                        THEN [once EXCEPT !.done = TRUE]
                        ELSE IF holds
                        THEN ForResults([once EXCEPT !.n = @ + 1], results,
                                        k + 1)
                        \* the predicate failed, and is called once more
                        ELSE ForResults(
                               [twice EXCEPT !.out = Append(@, SettledEntry(r)),
                                             !.dropping = FALSE, !.n = @ + 1],
                               results, k + 1)
               [] t.op = "takeWhile" ->
                    IF r.kind = "rejected"
                    THEN throw
                    ELSE IF r.kind = "done"
                       \/ ~Truthy(Callback(t.arg, r.value, t.n))
                    THEN [t EXCEPT !.done = TRUE]
                    ELSE ForResults([push EXCEPT !.n = @ + 1], results, k + 1)
               [] t.op = "dropWhile" ->
                    IF r.kind = "rejected"
                    THEN throw
                    ELSE IF r.kind = "done"
                    THEN [t EXCEPT !.done = TRUE]
                    ELSE IF t.dropping /\ Truthy(Callback(t.arg, r.value, t.n))
                    THEN ForResults([t EXCEPT !.n = @ + 1], results, k + 1)
                    ELSE ForResults([push EXCEPT !.n = @ + 1,
                                                 !.dropping = FALSE],
                                    results, k + 1)

\* mutant: a rejection does not end the loop
WhileHolds_pastRejection(t) ==
    IF t.op \in {"take", "takeSettled"}
    THEN ~t.done /\ Len(t.out) < t.arg
    ELSE ~t.done

\* mutant: take goes on pulling until the source is done
WhileHolds_takeUntilDone(t) == ~t.threw /\ ~t.done

\* The while loop of a terminal operation goes on: collect returns from
\* its loop at the first done result, and a throw leaves every loop.
WhileHolds(t) ==
    IF t.op \in {"take", "takeSettled"}
    THEN ~t.threw /\ ~t.done /\ Len(t.out) < t.arg
    ELSE ~t.threw /\ ~t.done

\* The array a terminal operation returns: take and takeSettled return
\* out.slice(0, n).
Returned(t) ==
    IF t.op \in {"take", "takeSettled"} /\ Len(t.out) > t.arg
    THEN SubSeq(t.out, 1, t.arg)
    ELSE t.out

\* What plast holds once the terminal operation with locals t has settled:
\* its promise is fulfilled with an array (execute: with the array reduced)
\* or rejected with the reason thrown.
TermSettled(t) ==
    [NoOp EXCEPT !.op = t.op, !.arg = t.arg,
                 !.kind = IF t.threw THEN "rejected"
                          ELSE IF t.op = "execute" THEN "value" ELSE "array",
                 !.out = IF t.threw THEN <<>> ELSE Returned(t),
                 !.value = IF t.op = "execute" /\ ~t.threw
                           THEN ArrayReduce(t.arg, t.arg.initVal, t.out, 1)
                           ELSE t.reason,
                 !.preExh = t.preExh,
                 !.src = srcCalls - t.src,
                 !.nexts = t.nexts]

\* A terminal operation o(a, w) up to its first await.
AsyncTerminal(o, a, w) ==
    /\ term.op = "none"
    /\ inflight = <<>>
    /\ LET t == [NoTerm EXCEPT !.op = o, !.arg = a, !.w = w,
                               !.dropping = (o \in {"dropWhile",
                                                     "dropWhileSettled"}),
                               !.preExh = exhausted, !.src = srcCalls]
       IN  IF WhileHolds(t)
           THEN /\ term' = [t EXCEPT !.nexts = Passes(w)] /\ batchNext(w)
                /\ plast' = [Did(o, a) EXCEPT !.kind = "pending"]
           ELSE /\ plast' = TermSettled(t)
                /\ UNCHANGED <<srcCalls, inflight, term>>
    /\ UNCHANGED <<srcItems, srcTail, cls, methods, exhausted, index, teeAll>>

\* A terminal operation resumes with the settled results of its batch.
AsyncTerminalResume ==
    /\ cls = "LazyAsyncIterator"
    /\ term.op # "none"
    /\ \A k \in 1..Len(inflight) : inflight[k].pc \in {"fulfilled", "rejected"}
    /\ LET results == [k \in 1..Len(inflight) |-> inflight[k].res]
           t == [ForResults(term, results, 1) EXCEPT
                    !.seen = term.seen \o results]
       IN  IF WhileHolds(t)
           THEN /\ term' = [t EXCEPT !.nexts = @ + Passes(term.w)]
                /\ batchNext(term.w) /\ UNCHANGED plast
           ELSE /\ term' = NoTerm
                /\ inflight' = <<>>
                /\ plast' = TermSettled(t)
                /\ UNCHANGED srcCalls
    /\ UNCHANGED <<srcItems, srcTail, cls, methods, exhausted, index, teeAll>>

\* it.collect(concurrency) and it.toArray()
LazyAsyncIteratorCollect(w) ==
    cls = "LazyAsyncIterator" /\ AsyncTerminal("collect", "none", w)

\* it.reduce(cb, initVal).execute(): ReduceExecutor.execute(), which awaits
\* this.lazyIterator.collect()
LazyAsyncIteratorExecute ==
    /\ cls = "LazyAsyncIterator"
    /\ HasReduceExecutor
    /\ AsyncTerminal("execute", methods[Len(methods)], 1)

\* it.collectSettled(concurrency)
LazyAsyncIteratorCollectSettled(w) ==
    cls = "LazyAsyncIterator" /\ AsyncTerminal("collectSettled", "none", w)

\* it.take(n, concurrency)
LazyAsyncIteratorTake(n, w) ==
    /\ cls = "LazyAsyncIterator"
    /\ IF n < 0 THEN ArgumentError("take", n) ELSE AsyncTerminal("take", n, w)

\* it.takeSettled(n, concurrency)
LazyAsyncIteratorTakeSettled(n, w) ==
    /\ cls = "LazyAsyncIterator"
    /\ IF n < 0
       THEN ArgumentError("takeSettled", n)
       ELSE AsyncTerminal("takeSettled", n, w)

\* it.drop(n, concurrency)
LazyAsyncIteratorDrop(n, w) ==
    /\ cls = "LazyAsyncIterator"
    /\ IF n < 0 THEN ArgumentError("drop", n) ELSE AsyncTerminal("drop", n, w)

\* it.dropSettled(n, concurrency)
LazyAsyncIteratorDropSettled(n, w) ==
    /\ cls = "LazyAsyncIterator"
    /\ IF n < 0
       THEN ArgumentError("dropSettled", n)
       ELSE AsyncTerminal("dropSettled", n, w)

\* it.takeWhile(predicate, concurrency)
LazyAsyncIteratorTakeWhile(pred, w) ==
    cls = "LazyAsyncIterator" /\ AsyncTerminal("takeWhile", pred, w)

\* it.dropWhile(predicate, concurrency)
LazyAsyncIteratorDropWhile(pred, w) ==
    cls = "LazyAsyncIterator" /\ AsyncTerminal("dropWhile", pred, w)

\* it.takeWhileSettled(predicate, concurrency)
LazyAsyncIteratorTakeWhileSettled(pred, w) ==
    cls = "LazyAsyncIterator" /\ AsyncTerminal("takeWhileSettled", pred, w)

\* it.dropWhileSettled(predicate, concurrency)
LazyAsyncIteratorDropWhileSettled(pred, w) ==
    cls = "LazyAsyncIterator" /\ AsyncTerminal("dropWhileSettled", pred, w)

\* The sources that count from 1.
Counting == {[i \in 1..k |-> i] : k \in 0..MaxLen}

\* LazyAsyncIterator.from(source) for a source that counts up to some number
\* and is done.
InitLazyAsync ==
    /\ srcItems \in Counting
    /\ srcTail = "done"
    /\ srcCalls = 0
    /\ cls = "LazyAsyncIterator"
    /\ methods = <<>>
    /\ exhausted = FALSE
    /\ index = 0
    /\ plast = NoOp
    /\ inflight = <<>> /\ term = NoTerm
    /\ NoTee

\* The asynchronous pipeline driven by the caller's own next() calls.
NextLazyAsyncPulls ==
    \/ LazyAsyncIteratorNext
    \/ \E k \in 1..Len(inflight) : LazyAsyncNextSource(k)
    \/ \E k \in 1..Len(inflight) : LazyAsyncNextOp(k)
    \/ LazyAsyncIteratorReturn
    \/ LazyAsyncIteratorThrow
    \/ \E fn \in MapFns : LazyAsyncIteratorMap(fn)
    \/ \E fn \in AsyncFilterFns : LazyAsyncIteratorFilter(fn)
    \/ \E fn \in ForEachFns : LazyAsyncIteratorForEach(fn)
    \/ \E fn \in MapFns : LazyAsyncIteratorMapAsync(fn)
    \/ \E fn \in FilterAsyncFns : LazyAsyncIteratorFilterAsync(fn)
    \/ \E fn \in ForEachFns : LazyAsyncIteratorForEachASync(fn)
    \/ \E fn \in ReduceFns : LazyAsyncIteratorReduce(fn, 0)

\* Its terminal operations.
NextLazyAsyncTerminals ==
    \/ \E w \in Widths : LazyAsyncIteratorCollect(w)
    \/ \E n \in 0..MaxLen, w \in Widths : LazyAsyncIteratorTake(n, w)
    \/ \E n \in 0..MaxLen, w \in Widths : LazyAsyncIteratorDrop(n, w)
    \/ \E pred \in PredFns, w \in Widths : LazyAsyncIteratorTakeWhile(pred, w)
    \/ \E pred \in PredFns, w \in Widths : LazyAsyncIteratorDropWhile(pred, w)
    \/ AsyncTerminalResume

NextLazyAsync == NextLazyAsyncPulls \/ NextLazyAsyncTerminals

SpecLazyAsync == InitLazyAsync /\ [][NextLazyAsync]_vars

(* ------------------------------ pipelines ----------------------------- *)

\* A pipeline of either class over a source that counts up to some number.
InitPipelines ==
    /\ srcItems \in Counting
    /\ srcTail = "done"
    /\ srcCalls = 0
    /\ cls \in {"LazyIterator", "LazyAsyncIterator"}
    /\ methods = <<>>
    /\ exhausted = FALSE
    /\ index = 0
    /\ plast = NoOp
    /\ inflight = <<>> /\ term = NoTerm
    /\ NoTee

NextPipelines == NextLazy \/ NextLazyAsync

SpecPipelines == InitPipelines /\ [][NextPipelines]_vars

\* The pipelines whose asynchronous terminal operations are left out: a
\* LazyAsyncIterator is driven by next() calls of the caller.
NextPulls == NextLazy \/ NextLazyAsyncPulls

SpecPulls == InitPipelines /\ [][NextPulls]_vars

(* -------------------------- claims: pipelines ------------------------- *)

AttachOps == {"map", "filter", "forEach", "mapAsync", "filterAsync",
              "forEachAsync", "reduce"}

TerminalOps == {"collect", "take", "drop", "takeWhile", "dropWhile"}

\* The running value before the c-th callback of an element's chain: the raw
\* element, replaced by the result of every map before c and by nothing else.
RECURSIVE RunningValue(_, _, _)
RunningValue(raw, calls, c) ==
    IF c <= 1
    THEN raw
    ELSE IF calls[c - 1].kind \in {"map", "mapAsync"}
         THEN calls[c - 1].ret
         ELSE RunningValue(raw, calls, c - 1)

\* calls, the callbacks invoked so far for a raw element, are those of the
\* operations ms in attachment order, each called with the running value.
ChainInOrder(raw, ms, calls) ==
    /\ Len(calls) <= Len(ms)
    /\ \A c \in 1..Len(calls) :
          /\ calls[c].kind = ms[c].kind
          /\ calls[c].fn = ms[c].fn
          /\ calls[c].arg = RunningValue(raw, calls, c)

\* Only a filter has ended a chain before the last operation.
ChainNotCutShort(ms, calls) ==
    (calls # <<>> /\ calls[Len(calls)].kind \notin {"filter", "filterAsync"})
        => Len(calls) = Len(ms)

\* The last next() of the caller: every element it pulled ran the operations
\* in order, and the value it yielded is the running value after the last.
ChainOfLastNext ==
    plast.op = "next" =>
        /\ \A e \in 1..Len(plast.elems) :
              LET el == plast.elems[e]
              IN  /\ ChainInOrder(el.raw, el.ms, el.calls)
                  /\ ChainNotCutShort(el.ms, el.calls)
                  /\ el.yielded => Len(el.calls) = Len(el.ms)
        /\ plast.kind = "value" =>
              LET el == plast.elems[Len(plast.elems)]
              IN  /\ el.yielded
                  /\ plast.value
                        = RunningValue(el.raw, el.calls, Len(el.calls) + 1)

\* The next() calls in flight of the asynchronous pipeline.
ChainOfCallsInFlight ==
    \A k \in 1..Len(inflight) :
        LET call == inflight[k]
        IN  /\ ChainInOrder(call.raw, methods, call.log)
            /\ call.pc = "op" =>
                  /\ call.mi = Len(call.log)
                  /\ call.opResult
                        = RunningValue(call.raw, call.log, Len(call.log))
            /\ (call.pc = "source" /\ call.log # <<>>) =>
                  call.log[Len(call.log)].kind \in {"filter", "filterAsync"}
            /\ (call.pc = "fulfilled" /\ call.res.kind = "value") =>
                  /\ Len(call.log) = call.nms
                  /\ call.res.value
                        = RunningValue(call.raw, call.log, Len(call.log) + 1)

\* C9: for every raw element pulled, by LazyIterator.next() or by
\* LazyAsyncIterator.next(), the callbacks run are those of the attached
\* operations in attachment order; each is called with the running value,
\* which only the result of a map or mapAsync replaces; a forEach or
\* forEachAsync changes neither the value yielded nor ends the chain.
C9_ChainSemantics == ChainOfLastNext /\ ChainOfCallsInFlight

\* A next() has yielded an element that went through a forEach and then a
\* map: the value yielded is the map's result for the raw element.
C9_Witness ==
    /\ plast.op = "next" /\ plast.kind = "value"
    /\ Len(methods) = 2
    /\ methods[1].kind \in {"forEach", "forEachAsync"}
    /\ methods[2].kind \in {"map", "mapAsync"}
    /\ Len(plast.elems[Len(plast.elems)].calls) = 2
    /\ plast.value = plast.elems[Len(plast.elems)].raw + 1

\* The state part of C7: a next() that started on an exhausted pipeline
\* reports done and made no call of the source's next(); a terminal
\* operation that started on one returns an empty array.
ExhaustedStaysSilent ==
    /\ (plast.op = "next" /\ plast.preExh) =>
          plast.kind = "done" /\ plast.src = 0 /\ plast.cb = 0
    /\ (plast.op \in TerminalOps /\ plast.kind = "array" /\ plast.preExh) =>
          plast.out = <<>> /\ plast.src = 0 /\ plast.cb = 0
    /\ \A k \in 1..Len(inflight) :
          inflight[k].preExh =>
              /\ inflight[k].pc = "fulfilled"
              /\ inflight[k].res = DoneResult
              /\ inflight[k].src = 0
    /\ (term.op # "none" /\ term.preExh) => term.out = <<>>

C10_AttachIsInert ==
    [][methods' # methods =>
          /\ srcCalls' = srcCalls
          /\ plast'.cb = 0 /\ plast'.src = 0
          /\ inflight' = inflight
          /\ index' = index /\ exhausted' = exhausted]_vars

\* A second operation was attached while the source had not been touched.
C10_Witness ==
    /\ plast.op \in AttachOps
    /\ Len(methods) = 2
    /\ srcCalls = 0 /\ Len(srcItems) > 0

(* ---------------------- takeWhile and dropWhile ----------------------- *)

\* The pipelines with, for the asynchronous class, takeWhile and dropWhile
\* of concurrency 1 as the only operations that pull.
NextWhile ==
    \/ NextLazy
    \/ \E k \in 1..Len(inflight) : LazyAsyncNextSource(k)
    \/ \E k \in 1..Len(inflight) : LazyAsyncNextOp(k)
    \/ LazyAsyncIteratorReturn
    \/ LazyAsyncIteratorThrow
    \/ \E fn \in MapFns : LazyAsyncIteratorMap(fn)
    \/ \E fn \in AsyncFilterFns : LazyAsyncIteratorFilter(fn)
    \/ \E fn \in ForEachFns : LazyAsyncIteratorForEach(fn)
    \/ \E fn \in MapFns : LazyAsyncIteratorMapAsync(fn)
    \/ \E fn \in FilterAsyncFns : LazyAsyncIteratorFilterAsync(fn)
    \/ \E fn \in ForEachFns : LazyAsyncIteratorForEachASync(fn)
    \/ \E fn \in ReduceFns : LazyAsyncIteratorReduce(fn, 0)
    \/ \E pred \in PredFns : LazyAsyncIteratorTakeWhile(pred, 1)
    \/ \E pred \in PredFns : LazyAsyncIteratorDropWhile(pred, 1)
    \/ AsyncTerminalResume

SpecWhile == InitPipelines /\ [][NextWhile]_vars

\* The elements an asynchronous pipeline with operations ms yields when it
\* is pulled one call at a time, after c calls of the source's next(): each
\* raw element goes through the operations in order, a map replaces it, a
\* filter with a falsy result removes it.
RECURSIVE SurvivesAs(_, _, _)
SurvivesAs(x, ms, i) ==
    IF i > Len(ms)
    THEN <<x>>
    ELSE IF ms[i].kind \in {"map", "mapAsync"}
    THEN SurvivesAs(Callback(ms[i].fn, x, 0), ms, i + 1)
    ELSE IF ms[i].kind \in {"filter", "filterAsync"}
            /\ ~Truthy(Callback(ms[i].fn, x, 0))
    THEN <<>>
    ELSE SurvivesAs(x, ms, i + 1)

RECURSIVE AsyncSurvivors(_, _)
AsyncSurvivors(c, ms) ==
    IF c >= Len(srcItems)
    THEN <<>>
    ELSE SurvivesAs(srcItems[c + 1], ms, 1) \o AsyncSurvivors(c + 1, ms)

\* The elements a LazyIterator yields from the state it is in: what its
\* next() returns, call after call, until done.
SyncSurvivors == CollectLoop(PipeState, methods, <<>>).out

RECURSIVE LongestPrefix(_, _, _)
LongestPrefix(seq, pred, idx) ==
    IF seq = <<>> \/ ~Truthy(Callback(pred, Head(seq), idx))
    THEN <<>>
    ELSE <<Head(seq)>> \o LongestPrefix(Tail(seq), pred, idx + 1)

RECURSIVE FromFirstFailing(_, _, _)
FromFirstFailing(seq, pred, idx) ==
    IF seq = <<>> \/ ~Truthy(Callback(pred, Head(seq), idx))
    THEN seq
    ELSE FromFirstFailing(Tail(seq), pred, idx + 1)

\* An asynchronous terminal operation o of concurrency 1 returns in this
\* step, and no return(), throw() or attach call came in while it ran.
ReturnsUndisturbed(o) ==
    /\ cls = "LazyAsyncIterator"
    /\ term.op = o /\ term.w = 1
    /\ plast.op = o /\ plast.kind = "pending"
    /\ plast'.kind = "array"

\* What such an operation had to work on: the elements the pipeline yields
\* from the state the operation found.
SurvivorsFound ==
    IF term.preExh THEN <<>> ELSE AsyncSurvivors(term.src, methods)

\* C11: takeWhile(predicate) of a LazyIterator, and of a LazyAsyncIterator
\* with concurrency 1, returns the longest prefix of the pipeline's
\* surviving elements for which the predicate holds: the first element that
\* fails it and every element after that one are left out.
C11_TakeWhilePrefix ==
    [][/\ (cls = "LazyIterator" /\ plast'.op = "takeWhile") =>
             plast'.out = LongestPrefix(SyncSurvivors, plast'.arg, 0)
       /\ ReturnsUndisturbed("takeWhile") =>
             plast'.out = LongestPrefix(SurvivorsFound, term.arg, 0)]_vars

\* A takeWhile(isOdd) of a LazyIterator over the elements 2, 3 (1, 2 mapped
\* by inc) has returned nothing although 3 is odd, or an asynchronous one
\* over 1, 2 has returned 1.
C11_Witness ==
    /\ plast.op = "takeWhile" /\ plast.kind = "array" /\ ~plast.preExh
    /\ plast.arg = "isOdd"
    /\ srcItems = <<1, 2>>
    /\ \/ cls = "LazyAsyncIterator" /\ methods = <<>> /\ plast.out = <<1>>
       \/ cls = "LazyIterator" /\ methods = <<MapRec("inc")>>
          /\ plast.out = <<>> /\ plast.src > 0

\* C12: dropWhile(predicate) of a LazyIterator, and of a LazyAsyncIterator
\* with concurrency 1, returns the surviving elements from the first one
\* that fails the predicate on: later elements are kept whether or not they
\* satisfy the predicate.
C12_DropWhileSuffix ==
    [][/\ (cls = "LazyIterator" /\ plast'.op = "dropWhile") =>
             plast'.out = FromFirstFailing(SyncSurvivors, plast'.arg, 0)
       /\ ReturnsUndisturbed("dropWhile") =>
             plast'.out = FromFirstFailing(SurvivorsFound, term.arg, 0)]_vars

\* A dropWhile(isOdd) over the elements 2, 3 has returned 2, 3: the odd 3 that
\* comes after the first failing element is kept.
C12_Witness ==
    /\ plast.op = "dropWhile" /\ plast.kind = "array" /\ ~plast.preExh
    /\ plast.arg = "isOdd"
    /\ plast.out = <<2, 3>>

(* ------------------- claims: arguments of take and drop --------------- *)

\* The counts handed to take, drop, takeSettled and dropSettled.
Counts == (0 - MaxLen)..MaxLen

\* The pipelines whose take and drop are called with any count.
NextArgs ==
    \/ LazyIteratorNext
    \/ \E fn \in MapFns : LazyIteratorMap(fn)
    \/ \E n \in Counts : LazyIteratorTake(n)
    \/ \E n \in Counts : LazyIteratorDrop(n)
    \/ \E k \in 1..Len(inflight) : LazyAsyncNextSource(k)
    \/ \E k \in 1..Len(inflight) : LazyAsyncNextOp(k)
    \/ \E fn \in MapFns : LazyAsyncIteratorMap(fn)
    \/ \E n \in Counts, w \in Widths : LazyAsyncIteratorTake(n, w)
    \/ \E n \in Counts, w \in Widths : LazyAsyncIteratorTakeSettled(n, w)
    \/ \E n \in Counts, w \in Widths : LazyAsyncIteratorDrop(n, w)
    \/ \E n \in Counts, w \in Widths : LazyAsyncIteratorDropSettled(n, w)
    \/ AsyncTerminalResume

SpecArgs == InitPipelines /\ [][NextArgs]_vars

\* The operations that take a count.
CountedOps == {"take", "drop", "takeSettled", "dropSettled"}

\* C13: take(n) and drop(n) of a LazyIterator and take, drop, takeSettled and
\* dropSettled of a LazyAsyncIterator called with n < 0 fail with an error:
\* the source's next() is not called, and the exhausted flag, the index, the
\* operation list and the next() calls in flight are as they were.
C13_NegativeCountRejected ==
    [][(plast' # plast /\ plast'.op \in CountedOps /\ plast'.arg < 0) =>
          /\ plast'.kind = "error"
          /\ UNCHANGED <<srcVars, methods, exhausted, index, asyncPipeVars>>]_vars

\* takeSettled(n) with n < 0 has failed on an asynchronous pipeline that has
\* an operation attached and elements left in its source.
C13_Witness ==
    /\ cls = "LazyAsyncIterator"
    /\ plast.op = "takeSettled" /\ plast.kind = "error" /\ plast.arg < 0
    /\ methods # <<>>
    /\ ~exhausted /\ srcCalls < Len(srcItems)

(* ------------------ claims: callbacks that reject ---------------------- *)

\* The asynchronous pipeline whose mapAsync callbacks reject for some
\* elements, under collect, collectSettled, take and dropSettled.
NextRejects ==
    \/ \E k \in 1..Len(inflight) : LazyAsyncNextSource(k)
    \/ \E k \in 1..Len(inflight) : LazyAsyncNextOp(k)
    \/ \E fn \in RejectingFns : LazyAsyncIteratorMapAsync(fn)
    \/ \E fn \in EvenFns : LazyAsyncIteratorFilterAsync(fn)
    \/ \E w \in Widths : LazyAsyncIteratorCollect(w)
    \/ \E w \in Widths : LazyAsyncIteratorCollectSettled(w)
    \/ \E n \in 0..MaxLen, w \in Widths : LazyAsyncIteratorTake(n, w)
    \/ \E n \in 0..MaxLen, w \in Widths : LazyAsyncIteratorDropSettled(n, w)
    \/ AsyncTerminalResume

SpecRejects == InitLazyAsync /\ [][NextRejects]_vars

\* The asynchronous terminal operation o settles in this step.
Settles(o) == term.op = o /\ term'.op = "none"

\* The results of the batch an operation is about to be handed.
LastBatch == [k \in 1..Len(inflight) |-> inflight[k].res]

\* C14: collect(W), W >= 1, rejects if the operation chain of any element
\* rejected before the source was exhausted: it does not resolve to an array
\* that leaves the failed element out.
C14_CollectRejects ==
    [][(/\ Settles("collect")
        /\ \E k \in 1..Len(inflight) :
              inflight[k].pc = "rejected" /\ ~inflight[k].endExh)
          => plast'.kind = "rejected"]_vars

\* The pipeline has no filter attached.
NoFilters ==
    \A i \in 1..Len(methods) : methods[i].kind \notin {"filter", "filterAsync"}

\* How a next() call that got element x from the source settles when the
\* chain ms runs on it from the i-th operation on with running value a.
RECURSIVE ChainOutcome(_, _, _, _)
ChainOutcome(x, a, ms, i) ==
    IF i > Len(ms)
    THEN [status |-> "fulfilled", done |-> FALSE, value |-> a]
    ELSE LET ret == Callback(ms[i].fn, a, 0)
         IN  IF ret = JSThrown
             THEN [status |-> "rejected", done |-> FALSE, value |-> x]
             ELSE ChainOutcome(x, IF ms[i].kind \in {"map", "mapAsync"}
                                  THEN ret ELSE a, ms, i + 1)

\* The outcomes of the elements the source has left after c calls, in
\* source order.
RECURSIVE OutcomesFrom(_, _)
OutcomesFrom(c, ms) ==
    IF c >= Len(srcItems)
    THEN <<>>
    ELSE <<ChainOutcome(srcItems[c + 1], srcItems[c + 1], ms, 1)>>
             \o OutcomesFrom(c + 1, ms)

\* C15: collectSettled(W), W >= 1, on a pipeline without filters never
\* rejects and returns one entry per element the source had left, in source
\* order: a fulfilled entry with the element's value where its chain
\* fulfilled and a rejected entry where it rejected, and no entry for done.
C15_CollectSettledPartition ==
    [][(Settles("collectSettled") /\ plast.kind = "pending" /\ NoFilters) =>
          /\ plast'.kind = "array"
          /\ plast'.out = OutcomesFrom(term.src, methods)]_vars

\* collectSettled(2) over 1, 2 with a callback that rejects the odd elements
\* has returned a rejected entry for 1 and a fulfilled entry for 2.
C15_Witness ==
    /\ plast.op = "collectSettled" /\ plast.kind = "array"
    /\ plast.nexts = 4
    /\ srcItems = <<1, 2>>
    /\ methods = <<MapAsyncRec("throwOdd")>>
    /\ plast.out = <<[status |-> "rejected", done |-> FALSE, value |-> 1],
                     [status |-> "fulfilled", done |-> FALSE, value |-> 2]>>

(* --------------------------- claims: reduce --------------------------- *)

\* The initial values handed to reduce.
InitVals == {0, 5}

\* The pipelines whose ReduceExecutor is run.
NextReduce ==
    \/ LazyIteratorNext
    \/ LazyIteratorReturn
    \/ \E fn \in MapFns : LazyIteratorMap(fn)
    \/ \E fn \in FilterFns : LazyIteratorFilter(fn)
    \/ \E fn \in ReduceFns, initVal \in InitVals : LazyIteratorReduce(fn, initVal)
    \/ LazyIteratorExecute
    \/ \E k \in 1..Len(inflight) : LazyAsyncNextSource(k)
    \/ \E k \in 1..Len(inflight) : LazyAsyncNextOp(k)
    \/ LazyAsyncIteratorReturn
    \/ \E fn \in MapFns : LazyAsyncIteratorMapAsync(fn)
    \/ \E fn \in FilterAsyncFns : LazyAsyncIteratorFilterAsync(fn)
    \/ \E fn \in ReduceFns, initVal \in InitVals :
          LazyAsyncIteratorReduce(fn, initVal)
    \/ \E n \in 1..MaxLen : LazyAsyncIteratorTake(n, 1)
    \/ LazyAsyncIteratorExecute
    \/ AsyncTerminalResume

SpecReduce == InitPipelines /\ [][NextReduce]_vars

\* The left fold of the reducer fn over seq, starting from acc.
RECURSIVE FoldLeft(_, _, _)
FoldLeft(fn, acc, seq) ==
    IF seq = <<>>
    THEN acc
    ELSE FoldLeft(fn, Reducer(fn, acc, Head(seq), 0), Tail(seq))

\* The operation list without its last record.
Front(ms) == SubSeq(ms, 1, Len(ms) - 1)

TakeSettles ==
    /\ plast'.op = "take" /\ plast'.kind \in {"array", "rejected"}
    /\ \/ term.op = "none" /\ plast' # plast
       \/ Settles("take") /\ plast.kind = "pending"

\* The calls of the source made before that take started, and its W.
TakeFrom == IF term.op = "take" THEN term.src ELSE srcCalls

TakeWidth == IF term.op = "take" THEN term.w ELSE 1

\* The first n outcomes the pipeline had to give when that take started.
FirstOutcomes(n) ==
    LET all == OutcomesFrom(TakeFrom, methods)
    IN  SubSeq(all, 1, MinOf({n, Len(all)}))

\* C17: take(n, W), n >= 0 and W >= 1, returns at most n elements. On a
\* pipeline without filters whose source has at least n elements left, none
\* of them rejected, it returns the first n in source order and issues at
\* most n + W - 1 next() calls.
C17_AsyncTake ==
    [][TakeSettles =>
          LET n == plast'.arg
              first == FirstOutcomes(n)
          IN  /\ Len(plast'.out) <= n
              /\ (/\ NoFilters /\ ~plast'.preExh
                  /\ Len(first) = n
                  /\ \A i \in 1..n : first[i].status = "fulfilled") =>
                    /\ plast'.kind = "array"
                    /\ plast'.out = [i \in 1..n |-> first[i].value]
                    /\ plast'.nexts <= n + TakeWidth - 1]_vars

\* take(1, 2) over 1, 2 has returned 1 after two next() calls, the second of
\* which got an element past the first n.
C17_Witness ==
    /\ plast.op = "take" /\ plast.kind = "array" /\ plast.arg = 1
    /\ ~plast.preExh
    /\ srcItems = <<1, 2>>
    /\ plast.out = <<1>>
    /\ plast.nexts = 2 /\ plast.src = 2

\* What dropSettled(n) owes for the results rs from the k-th on: a done
\* result gives no entry, a rejected one its entry, and a fulfilled one its
\* entry unless it is among the first n fulfilled ones.
RECURSIVE DropSettledOwes(_, _, _)
DropSettledOwes(rs, n, k) ==
    IF k > Len(rs)
    THEN <<>>
    ELSE IF rs[k].kind = "done"
    THEN DropSettledOwes(rs, n, k + 1)
    ELSE IF rs[k].kind = "rejected"
    THEN <<SettledEntry(rs[k])>> \o DropSettledOwes(rs, n, k + 1)
    ELSE IF n > 0
    THEN DropSettledOwes(rs, n - 1, k + 1)
    ELSE <<SettledEntry(rs[k])>> \o DropSettledOwes(rs, 0, k + 1)

\* C18: of the outcomes of the next() calls it issues, dropSettled(n) leaves
\* the first n fulfilled ones that are not done out of its output, and
\* returns every rejected one, one met while fewer than n values have been
\* dropped included, and every fulfilled one after the n-th that is not done.
C18_DropSettled ==
    [][(Settles("dropSettled") /\ plast.kind = "pending") =>
          /\ plast'.kind = "array"
          /\ plast'.out = DropSettledOwes(term.seen \o LastBatch, term.arg, 1)]_vars

(* ------------------------- claims: attaching -------------------------- *)

\* An operation is attached in this step.
Attaches ==
    /\ plast'.op \in AttachOps
    /\ plast' # plast \/ methods' # methods

Inputs ==
    [type : {"undefined", "null", "number"},
     next : {FALSE}, iter : {FALSE}, asyncIter : {FALSE}]
        \cup [type : {"object"},
              next : BOOLEAN, iter : BOOLEAN, asyncIter : BOOLEAN]

\* LazyAsyncIterator.from(input): an iterator is made into a pipeline
\* ("created") or an Error is thrown ("error").
LazyAsyncIteratorFromResult(input) ==
    IF input.type \in {"undefined", "null"}
    THEN "error"
    ELSE IF input.type = "object" /\ input.next /\ input.asyncIter
    THEN "created"
    ELSE IF input.type = "object" /\ input.next /\ input.iter
    THEN "created"
    ELSE IF input.type = "object" /\ input.asyncIter
    THEN "created"
    ELSE IF input.type = "object" /\ input.iter
    THEN "created"
    ELSE "error"

\* LazyIterator.from(iter); 'next' in iter throws a TypeError for a number.
LazyIteratorFromResult(input) ==
    IF input.type \in {"undefined", "null"}
    THEN "error"
    ELSE IF input.type # "object"
    THEN "error"
    ELSE IF input.next
    THEN "created"
    ELSE IF input.iter
    THEN "created"
    ELSE "error"

\* from(input) of class c with result r; the constructor sets the fields.
From(c, input, r) ==
    /\ plast' = [NoOp EXCEPT !.op = c \o ".from", !.arg = input, !.kind = r,
                             !.ret = IF r = "created" THEN c ELSE "none"]
    /\ cls' = IF r = "created" THEN c ELSE cls
    /\ methods' = <<>> /\ exhausted' = FALSE /\ index' = 0
    /\ UNCHANGED <<srcVars, asyncPipeVars, teeAll>>

\* LazyAsyncIterator.from(input)
LazyAsyncIteratorFrom(input) ==
    /\ cls = "none"
    /\ From("LazyAsyncIterator", input, LazyAsyncIteratorFromResult(input))

\* LazyIterator.from(iter)
LazyIteratorFrom(input) ==
    /\ cls = "none"
    /\ From("LazyIterator", input, LazyIteratorFromResult(input))

\* No pipeline yet, and a source that counts up to some number.
InitFrom ==
    /\ srcItems \in Counting
    /\ srcTail = "done"
    /\ srcCalls = 0
    /\ NoPipeline
    /\ NoTee

\* A pipeline is created and pulled from.
NextFrom ==
    \/ \E input \in Inputs : LazyAsyncIteratorFrom(input)
    \/ \E input \in Inputs : LazyIteratorFrom(input)
    \/ LazyIteratorNext
    \/ LazyAsyncIteratorNext
    \/ \E k \in 1..Len(inflight) : LazyAsyncNextSource(k)

SpecFrom == InitFrom /\ [][NextFrom]_vars

\* C20: LazyAsyncIterator.from accepts every input other than null and
\* undefined that has a next function, Symbol.iterator or
\* Symbol.asyncIterator, an object with a next function and neither symbol
\* included, and throws an Error for every other input.
C20_FromAcceptsPullCapability ==
    [][(plast' # plast /\ plast'.op = "LazyAsyncIterator.from") =>
          LET input == plast'.arg
          IN  plast'.kind =
                  IF /\ input.type = "object"
                     /\ input.next \/ input.iter \/ input.asyncIter
                  THEN "created"
                  ELSE "error"]_vars

(* --------------------- creating a tee group: tee(count) ---------------- *)

\* The count arguments tried: a non-number, NaN, and the numbers -1, -0.5,
\* 0, 0.5, 1, 1.5, 2, each number written as twice its value.
TeeCounts ==
    {[is |-> "string", twice |-> 0], [is |-> "NaN", twice |-> 0]}
        \cup {[is |-> "number", twice |-> t] : t \in (0 - 2)..(2 * MaxForks)}

\* Math.floor(count) of a number count.
MathFloor(c) == c.twice \div 2

\* createTeeIterators' handling of count: an Error unless typeof count is
\* "number", then Math.floor, then Array(count), which throws a RangeError
\* for NaN and for a negative length; otherwise that many forks.
TeeCountOutcome(c) ==
    IF c.is \notin {"number", "NaN"}
    THEN [kind |-> "error", forks |-> 0]
    ELSE IF c.is = "NaN" \/ MathFloor(c) < 0
    THEN [kind |-> "error", forks |-> 0]
    ELSE [kind |-> "created", forks |-> MathFloor(c)]

\* tee(count) of a pipeline: createTeeIterators(this, count) or
\* createAsyncTeeIterators(this, count); the forks start at position 0 over
\* an empty buffer, and nothing is pulled.
Tee(c) ==
    LET r == TeeCountOutcome(c)
    IN  /\ count = 0
        /\ plast' = [Did("tee", c) EXCEPT !.kind = r.kind, !.value = r.forks]
        /\ count' = r.forks
        /\ iteratorIndexPositions' = [i \in 1..r.forks |-> 0]
        /\ done' = [i \in 1..r.forks |-> FALSE]
        /\ forkOut' = [i \in 1..r.forks |-> <<>>]
        /\ stopped' = [i \in 1..r.forks |-> FALSE]
        /\ pending' = [i \in 1..r.forks |-> Idle]
        /\ UNCHANGED <<srcVars, streamBuffer, streamExhausted, streamError,
                       who, op, res, late, srcQueue, readyQueue, cls,
                       methods, exhausted, index, asyncPipeVars>>

LazyIteratorTee(c) == cls = "LazyIterator" /\ Tee(c)

LazyAsyncIteratorTee(c) == cls = "LazyAsyncIterator" /\ Tee(c)

\* A pipeline is built and pulled from, and tee(count) is called on it.
NextTeeCount ==
    \/ \E c \in TeeCounts : LazyIteratorTee(c)
    \/ \E c \in TeeCounts : LazyAsyncIteratorTee(c)
    \/ LazyIteratorNext
    \/ \E fn \in MapFns : LazyIteratorMap(fn)
    \/ LazyAsyncIteratorNext
    \/ \E k \in 1..Len(inflight) : LazyAsyncNextSource(k)
    \/ \E k \in 1..Len(inflight) : LazyAsyncNextOp(k)
    \/ \E fn \in MapFns : LazyAsyncIteratorMap(fn)

SpecTeeCount == InitPipelines /\ [][NextTeeCount]_vars

\* count is a positive integer
PositiveInteger(c) ==
    c.is = "number" /\ c.twice % 2 = 0 /\ c.twice > 0

\* C21: tee(count) throws whenever count is not a positive integer (0, a
\* negative number, a non-integer number, a non-number), and pulls no
\* element from the pipeline before it does.
C21_TeeCountValidated ==
    [][(plast'.op = "tee" /\ plast' # plast /\ ~PositiveInteger(plast'.arg))
          => plast'.kind = "error" /\ srcCalls' = srcCalls]_vars

(* ------------------- claims: the concurrency argument ------------------ *)

\* The concurrency arguments tried: a negative number, 0, and the widths.
Concurrencies == ((0 - 1)..0) \cup Widths

\* A pipeline is built and terminal operations are called on it with a
\* concurrency that may be 0 or negative.
NextConcurrency ==
    \/ \E k \in 1..Len(inflight) : LazyAsyncNextSource(k)
    \/ \E k \in 1..Len(inflight) : LazyAsyncNextOp(k)
    \/ \E fn \in MapFns : LazyAsyncIteratorMap(fn)
    \/ \E fn \in AsyncFilterFns : LazyAsyncIteratorFilter(fn)
    \/ \E w \in Concurrencies : LazyAsyncIteratorCollect(w)
    \/ \E w \in Concurrencies : LazyAsyncIteratorCollectSettled(w)
    \/ \E n \in 0..MaxLen, w \in Concurrencies : LazyAsyncIteratorTake(n, w)
    \/ \E n \in 0..MaxLen, w \in Concurrencies : LazyAsyncIteratorDrop(n, w)
    \/ \E pred \in PredFns, w \in Concurrencies :
          LazyAsyncIteratorTakeWhile(pred, w)
    \/ AsyncTerminalResume

SpecConcurrency == InitLazyAsync /\ [][NextConcurrency]_vars

\* C22: a terminal operation called with a concurrency that is not a
\* positive integer fails with an error: no terminal operation is ever in
\* its loop with such a concurrency, issuing batches of no next() call.
C22_ConcurrencyValidated == term.op # "none" => term.w >= 1

(* -------------------- claims: callbacks that throw --------------------- *)

\* Pipelines whose callbacks may throw (sync) or reject (async), pulled from
\* and drained by the throwing terminal operations.
NextThrows ==
    \/ LazyIteratorNext
    \/ \E fn \in RejectingFns \cup MapFns : LazyIteratorMap(fn)
    \/ \E fn \in RejectingFns : LazyIteratorFilter(fn)
    \/ \E fn \in RejectingFns : LazyIteratorForEach(fn)
    \/ \E fn \in ReduceFns : LazyIteratorReduce(fn, 0)
    \/ LazyIteratorCollect
    \/ \E n \in 0..MaxLen : LazyIteratorTake(n)
    \/ \E n \in 0..MaxLen : LazyIteratorDrop(n)
    \/ \E pred \in PredFns : LazyIteratorTakeWhile(pred)
    \/ \E pred \in PredFns : LazyIteratorDropWhile(pred)
    \/ LazyIteratorExecute
    \/ \E k \in 1..Len(inflight) : LazyAsyncNextSource(k)
    \/ \E k \in 1..Len(inflight) : LazyAsyncNextOp(k)
    \/ \E fn \in RejectingFns : LazyAsyncIteratorMapAsync(fn)
    \/ \E fn \in ReduceFns : LazyAsyncIteratorReduce(fn, 0)
    \/ \E w \in Widths : LazyAsyncIteratorCollect(w)
    \/ \E n \in 0..MaxLen, w \in Widths : LazyAsyncIteratorTake(n, w)
    \/ \E n \in 0..MaxLen, w \in Widths : LazyAsyncIteratorDrop(n, w)
    \/ \E pred \in PredFns, w \in Widths : LazyAsyncIteratorTakeWhile(pred, w)
    \/ \E pred \in PredFns, w \in Widths : LazyAsyncIteratorDropWhile(pred, w)
    \/ LazyAsyncIteratorExecute
    \/ AsyncTerminalResume

SpecThrows == InitPipelines /\ [][NextThrows]_vars

\* The terminal operations that let an element's error propagate.
ThrowingTerminals ==
    {"collect", "take", "drop", "takeWhile", "dropWhile", "execute"}

\* C23: when a throwing terminal operation (collect, take, drop, takeWhile,
\* dropWhile, reduce's execute) of a sync or async pipeline propagates the
\* error of a transformation callback, it leaves the pipeline's exhausted
\* flag set, so that every later next() reports done.
C23_TerminalErrorExhausts ==
    [][(/\ plast' # plast
        /\ plast'.op \in ThrowingTerminals
        /\ plast'.kind \in {"throw", "rejected"}) => exhausted']_vars

(* ------------------ claims: reduce after a full iteration -------------- *)

\* The pipeline as from() creates it, before any pull.
FreshPipe == [srcCalls |-> 0, index |-> 0, exhausted |-> FALSE, cb |-> 0,
              threw |-> FALSE]

\* The pipeline has been iterated to its end: its source has reported done.
FullyIterated == exhausted /\ srcCalls > Len(srcItems)

\* C24: after a LazyIterator has been fully iterated, reduce(fn, init)
\* followed by execute() on the same iterator still returns the fold of fn
\* from init over all the elements of the pipeline, not init.
C24_ReduceAfterIteration ==
    [][(/\ cls = "LazyIterator" /\ plast' # plast /\ plast'.op = "execute"
        /\ methods[Len(methods)].kind = "reduce"
        /\ FullyIterated) =>
          plast'.value =
              FoldLeft(plast'.arg.fn, plast'.arg.initVal,
                       CollectLoop(FreshPipe, Front(methods), <<>>).out)]_vars

(* ------------------------ fan-out: teeConsumers ------------------------ *)

\* A consumer descriptor { kind, fn, initVal } with a string kind and a
\* function fn.
Consumer(kind, fn, initVal) ==
    [typeof |-> "object", typeofKind |-> "string", typeofFn |-> "function",
     kind |-> kind, fn |-> fn, initVal |-> initVal]

\* The descriptors tried: one of each recognized kind, reduce with and
\* without initVal, a kind that is no recognized one, a kind that is no
\* string, an fn that is no function, and a consumer that is no object.
Consumers ==
    {Consumer("map", "inc", JSUndefined),
     Consumer("filter", "isOdd", JSUndefined),
     Consumer("reduce", "sum", 0),
     Consumer("reduce", "sum", JSUndefined),
     Consumer("forEach", "retFalse", JSUndefined),
     Consumer("other", "inc", JSUndefined),
     [Consumer("", "inc", JSUndefined) EXCEPT !.typeofKind = "number"],
     [Consumer("map", "", JSUndefined) EXCEPT !.typeofFn = "undefined"],
     [Consumer("", "", JSUndefined) EXCEPT !.typeof = "number"]}

\* The longest list of descriptors handed to teeConsumers.
MaxConsumers == 2

\* The validation loop of teeConsumers over its descriptors.
ConsumersValid(consumers) ==
    /\ Len(consumers) > 0
    /\ \A i \in 1..Len(consumers) :
          /\ consumers[i].typeof = "object"
          /\ consumers[i].typeofKind = "string"
          /\ consumers[i].typeofFn = "function"

\* An entry of outResults: an array, a value, or undefined.
ArrayResult(array) == [is |-> "array", array |-> array, value |-> 0]

ValueResult(value) ==
    [is |-> IF value = JSUndefined THEN "undefined" ELSE "value",
     array |-> <<>>, value |-> value]

\* The loop `for (const elem of iterators[consumerIdx])` of consumer fn from
\* the k-th element of the array on (elementIdx = k - 1), each fork yielding
\* the elements of the array in order: the locals mapResult, reduceResult
\* and filterResult it leaves, and whether it has thrown.
RECURSIVE ConsumeLoop(_, _, _, _)
ConsumeLoop(fn, array, k, locals) ==
    IF k > Len(array)
    THEN locals
    ELSE LET elem == array[k]
             elementIdx == k - 1
         IN  CASE fn.kind = "forEach" ->
                    ConsumeLoop(fn, array, k + 1, locals)
               [] fn.kind = "map" ->
                    ConsumeLoop(fn, array, k + 1,
                        [locals EXCEPT !.mapResult =
                            Append(@, Callback(fn.fn, elem, elementIdx))])
               [] fn.kind = "reduce" ->
                    ConsumeLoop(fn, array, k + 1,
                        [locals EXCEPT !.reduceResult =
                            IF elementIdx = 0 /\ @ = JSUndefined
                            THEN elem
                            ELSE Reducer(fn.fn, @, elem, elementIdx)])
               [] fn.kind = "filter" ->
                    ConsumeLoop(fn, array, k + 1,
                        IF Truthy(Callback(fn.fn, elem, elementIdx))
                        THEN [locals EXCEPT !.filterResult = Append(@, elem)]
                        ELSE locals)
               [] OTHER -> [locals EXCEPT !.threw = TRUE]

\* The entry of outResults of consumer fn once its loop has left locals:
\* the 0 the array was filled with when no case of the switch matches.
OutResult(fn, locals) ==
    CASE fn.kind = "forEach" -> ValueResult(JSUndefined)
      [] fn.kind = "reduce" -> ValueResult(locals.reduceResult)
      [] fn.kind = "map" -> ArrayResult(locals.mapResult)
      [] fn.kind = "filter" -> ArrayResult(locals.filterResult)
      [] OTHER -> ValueResult(0)

\* The loop over the consumers from the i-th on: outResults, or a throw.
RECURSIVE ConsumersLoop(_, _, _, _)
ConsumersLoop(consumerFns, array, i, outResults) ==
    IF i > Len(consumerFns)
    THEN [kind |-> "array", out |-> outResults]
    ELSE LET fn == consumerFns[i]
             locals == ConsumeLoop(fn, array, 1,
                           [mapResult |-> <<>>, filterResult |-> <<>>,
                            reduceResult |-> IF fn.kind = "reduce"
                                             THEN fn.initVal
                                             ELSE JSUndefined,
                            threw |-> FALSE])
         IN  IF locals.threw
             THEN [kind |-> "error", out |-> <<>>]
             ELSE ConsumersLoop(consumerFns, array, i + 1,
                                Append(outResults, OutResult(fn, locals)))

\* array.teeConsumers(...consumers), on a receiver that is an array or not.
teeConsumers(isArray, consumers) ==
    /\ cls = "none"
    /\ LET r == IF isArray /\ ConsumersValid(consumers)
                THEN ConsumersLoop(consumers, srcItems, 1, <<>>)
                ELSE [kind |-> "error", out |-> <<>>]
       IN  plast' = [NoOp EXCEPT !.op = "teeConsumers",
                                 !.arg = [isArray |-> isArray,
                                          consumers |-> consumers],
                                 !.kind = r.kind, !.out = r.out]
    /\ UNCHANGED <<srcVars, cls, methods, exhausted, index, asyncPipeVars,
                   teeAll>>

\* An array, of any length up to MaxLen.
InitConsumers ==
    /\ srcItems \in SeqsUpTo(Values, MaxLen)
    /\ srcTail = "done"
    /\ srcCalls = 0
    /\ NoPipeline
    /\ NoTee

NextConsumers ==
    \E isArray \in BOOLEAN, consumers \in SeqsUpTo(Consumers, MaxConsumers) :
        teeConsumers(isArray, consumers)

SpecConsumers == InitConsumers /\ [][NextConsumers]_vars

\* The kinds teeConsumers recognizes.
ConsumerKinds == {"map", "filter", "reduce", "forEach"}

\* C25: teeConsumers fails with an error, and returns no result array,
\* whenever a descriptor's kind is not one of map, filter, reduce and
\* forEach, whatever the receiver array is, the empty array included.
C25_UnknownKindRejected ==
    (/\ plast.op = "teeConsumers"
     /\ \E i \in 1..Len(plast.arg.consumers) :
           \/ plast.arg.consumers[i].typeofKind # "string"
           \/ plast.arg.consumers[i].kind \notin ConsumerKinds)
        => plast.kind = "error"

\* A callback of the last next() has thrown.
CallbackThrew(o) ==
    /\ o.op = "next" /\ o.elems # <<>>
    /\ LET calls == o.elems[Len(o.elems)].calls
       IN  calls # <<>> /\ calls[Len(calls)].ret = JSThrown

\* C28: when a map, filter or forEach callback throws inside
\* LazyIterator.next(), the exception propagates to the caller, the
\* exhausted flag stays false, and the next next() call goes on with the
\* raw element that follows the failing one (or reports done when there is
\* none).
C28_CallbackThrowKeepsPipeline ==
    [][(cls = "LazyIterator" /\ plast' # plast /\ CallbackThrew(plast')) =>
          /\ plast'.kind = "throw"
          /\ ~exhausted'
          /\ srcCalls' \in 1..Len(srcItems)
          /\ LET failing == srcCalls'
                 r == LazyNext([srcCalls |-> srcCalls', index |-> index',
                                exhausted |-> exhausted', cb |-> 0,
                                threw |-> FALSE], methods')
             IN  IF failing < Len(srcItems)
                 THEN /\ r.elems # <<>>
                      /\ r.elems[1].raw = srcItems[failing + 1]
                 ELSE r.kind = "done"]_vars

\* A callback has thrown inside next() on an element that is not the last
\* of the source.
C28_Witness ==
    /\ cls = "LazyIterator" /\ CallbackThrew(plast)
    /\ plast.kind = "throw" /\ srcCalls < Len(srcItems)

(* ----------------------- claims: the batch pump ------------------------ *)

\* Pipelines whose callbacks may reject, drained by the terminal
\* operations.
NextBatches ==
    \/ \E k \in 1..Len(inflight) : LazyAsyncNextSource(k)
    \/ \E k \in 1..Len(inflight) : LazyAsyncNextOp(k)
    \/ \E fn \in RejectingFns : LazyAsyncIteratorMapAsync(fn)
    \/ \E fn \in EvenFns : LazyAsyncIteratorFilterAsync(fn)
    \/ \E w \in Widths : LazyAsyncIteratorCollect(w)
    \/ \E w \in Widths : LazyAsyncIteratorCollectSettled(w)
    \/ \E n \in 0..MaxLen, w \in Widths : LazyAsyncIteratorTake(n, w)
    \/ \E n \in 0..MaxLen, w \in Widths : LazyAsyncIteratorTakeSettled(n, w)
    \/ \E n \in 0..MaxLen, w \in Widths : LazyAsyncIteratorDrop(n, w)
    \/ \E n \in 0..MaxLen, w \in Widths : LazyAsyncIteratorDropSettled(n, w)
    \/ \E pred \in PredFns, w \in Widths : LazyAsyncIteratorTakeWhile(pred, w)
    \/ \E pred \in PredFns, w \in Widths : LazyAsyncIteratorDropWhile(pred, w)
    \/ AsyncTerminalResume

SpecBatches == InitLazyAsync /\ [][NextBatches]_vars

\* The next() call has settled.
HasSettled(call) == call.pc \in {"fulfilled", "rejected"}

\* This step issues a batch of the terminal operation in progress.
IssuesBatch == term'.op # "none" /\ term'.nexts > term.nexts

NonSettledTerminals == {"collect", "take", "drop", "takeWhile", "dropWhile"}

\* A result of the batch in flight is done or a rejection.
BatchStops ==
    \E k \in 1..Len(inflight) : inflight[k].res.kind \in {"done", "rejected"}

\* C30: once collect, take, drop, takeWhile or dropWhile has been handed a
\* batch with a done result or a rejection, it issues no further batch: it
\* settles, and makes no next() call on the pipeline after that batch.
C30_NoPullAfterStoppingBatch ==
    [][(/\ term.op \in NonSettledTerminals
        /\ term' # term
        /\ \A k \in 1..Len(inflight) : HasSettled(inflight[k])
        /\ BatchStops) =>
          /\ term'.op = "none"
          /\ inflight' = <<>>
          /\ srcCalls' = srcCalls
          /\ plast'.op = term.op
          /\ plast'.nexts = term.nexts]_vars

\* collect, take, drop, takeWhile or dropWhile has rejected after a batch
\* that left elements of the source unpulled.
C30_Witness ==
    /\ plast.op \in NonSettledTerminals /\ plast.kind = "rejected"
    /\ term.op = "none" /\ inflight = <<>>
    /\ plast.nexts > 0 /\ srcCalls < Len(srcItems)

(* ----------------------- claims: the reduce record --------------------- *)

\* C31: after any sequence of attach calls on one pipeline, its operation
\* list holds at most one reduce record, and that record is the last one.
C31_ReduceRecordLast ==
    \A i \in 1..Len(methods) : methods[i].kind = "reduce" => i = Len(methods)

(* ------------------ claims: collect under concurrency ------------------ *)

\* Pipelines of map, filter and forEach operations, synchronous or
\* asynchronous, none of which rejects, collected with any concurrency.
NextCollects ==
    \/ \E k \in 1..Len(inflight) : LazyAsyncNextSource(k)
    \/ \E k \in 1..Len(inflight) : LazyAsyncNextOp(k)
    \/ \E fn \in MapFns : LazyAsyncIteratorMap(fn)
    \/ \E fn \in AsyncFilterFns : LazyAsyncIteratorFilter(fn)
    \/ \E fn \in ForEachFns : LazyAsyncIteratorForEach(fn)
    \/ \E fn \in MapFns : LazyAsyncIteratorMapAsync(fn)
    \/ \E fn \in FilterAsyncFns : LazyAsyncIteratorFilterAsync(fn)
    \/ \E fn \in ForEachFns : LazyAsyncIteratorForEachASync(fn)
    \/ \E w \in Widths : LazyAsyncIteratorCollect(w)
    \/ AsyncTerminalResume

SpecCollects == InitLazyAsync /\ [][NextCollects]_vars

\* C32: for every chain of map, filter and forEach operations that never
\* rejects and every W >= 1, collect(W) returns what collect(1) returns: every
\* surviving element of the pipeline once, in source order.
C32_CollectWidthIndependent ==
    [][(/\ Settles("collect")
        /\ plast.op = "collect" /\ plast.kind = "pending") =>
          /\ plast'.kind = "array"
          /\ plast'.out = SurvivorsFound]_vars

(* ---------------- claims: sync and async pipelines compared ------------ *)

\* An asynchronous pipeline of synchronous operations, drained by take and
\* collect calls of concurrency 1.
NextSyncOps ==
    \/ \E k \in 1..Len(inflight) : LazyAsyncNextSource(k)
    \/ \E k \in 1..Len(inflight) : LazyAsyncNextOp(k)
    \/ \E fn \in MapFns : LazyAsyncIteratorMap(fn)
    \/ \E fn \in FilterFns : LazyAsyncIteratorFilter(fn)
    \/ \E fn \in ForEachFns : LazyAsyncIteratorForEach(fn)
    \/ \E n \in 0..MaxLen : LazyAsyncIteratorTake(n, 1)
    \/ LazyAsyncIteratorCollect(1)
    \/ AsyncTerminalResume

SpecSyncOps == InitLazyAsync /\ [][NextSyncOps]_vars

\* What a LazyIterator in state s with the operations ms does on the
\* terminal call o(a): the array returned and the state left.
SyncTwin(o, a, s, ms) ==
    IF o = "take"
    THEN TakeLoop(s, ms, a, 0, <<>>)
    ELSE CollectLoop(s, ms, <<>>)

\* C33: given the same source, the same chain of synchronous map, filter and
\* forEach operations and the same sequence of terminal calls, a
\* LazyAsyncIterator with concurrency 1 returns the same arrays as a
\* LazyIterator: each take(n) or collect() returns what the LazyIterator
\* returns from the same state, and leaves a pipeline whose following
\* collect() returns the same as well.
C33_SyncAsyncEquivalent ==
    [][(/\ cls = "LazyAsyncIterator"
        /\ plast' # plast
        /\ plast'.op \in {"take", "collect"} /\ plast'.kind = "array"
        /\ term.op = "none" \/ plast.kind = "pending") =>
          LET before == [srcCalls |-> srcCalls' - plast'.src, index |-> 0,
                         exhausted |-> plast'.preExh, cb |-> 0,
                         threw |-> FALSE]
              after == [srcCalls |-> srcCalls', index |-> 0,
                        exhausted |-> exhausted', cb |-> 0, threw |-> FALSE]
              twin == SyncTwin(plast'.op, plast'.arg, before, methods)
          IN  /\ plast'.out = twin.out
              /\ CollectLoop(after, methods, <<>>).out
                    = CollectLoop(twin.s, methods, <<>>).out]_vars

(* ----------------------- claims: synchronous take ---------------------- *)

\* C34: when LazyIterator.take(n) returns n elements of a pipeline that has
\* more than n surviving elements, the (n+1)-th surviving element has not
\* been pulled and the pipeline is not exhausted: a following collect()
\* returns the remaining surviving elements, the (n+1)-th first.
C34_TakeConsumesWhatItReturns ==
    [][(/\ cls = "LazyIterator"
        /\ plast' # plast /\ plast'.op = "take" /\ plast'.kind = "array"
        /\ Len(SyncSurvivors) > plast'.arg) =>
          LET after == [srcCalls |-> srcCalls', index |-> index',
                        exhausted |-> exhausted', cb |-> 0, threw |-> FALSE]
              n == plast'.arg
          IN  /\ plast'.out = SubSeq(SyncSurvivors, 1, n)
              /\ ~exhausted'
              /\ CollectLoop(after, methods, <<>>).out
                    = SubSeq(SyncSurvivors, n + 1, Len(SyncSurvivors))]_vars

(* ------------------- claims: invocations of the reducer ---------------- *)

\* A next() call in flight has invoked the function of a reduce record.
ReducerRunInFlight ==
    \E k \in 1..Len(inflight) :
        \E j \in 1..Len(inflight[k].log) : inflight[k].log[j].kind = "reduce"

\* C35: executing the reduce executor invokes the reducer once per surviving
\* element, with init or the result of the previous invocation as
\* accumulator, and never during the drain with another accumulator: the
\* drain of a LazyIterator invokes the callbacks of the operations before
\* the reduce record only, and no next() call of a LazyAsyncIterator invokes
\* the function of a reduce record.
C35_ReducerOncePerElement ==
    [][/\ (/\ cls = "LazyIterator" /\ plast' # plast /\ plast'.op = "execute"
           /\ methods[Len(methods)].kind = "reduce") =>
             /\ plast'.value =
                    FoldLeft(plast'.arg.fn, plast'.arg.initVal, plast'.out)
             /\ plast'.cb =
                    CollectLoop(PipeState, Front(methods), <<>>).s.cb
       /\ ~ReducerRunInFlight]_vars

(* -------------------- claims: the callback index ----------------------- *)

\* C36: for every concurrency W >= 1, the idx argument the chain's callbacks
\* are passed for the i-th raw element pulled from the source, counting from
\* 0, is i (the sources count from 1, so the raw element i + 1): no two raw
\* elements are processed with the same idx.
C36_IndexIsPosition ==
    \A k \in 1..Len(inflight) :
        \A j \in 1..Len(inflight[k].log) :
            inflight[k].log[j].idx = inflight[k].raw - 1

(* -------------------- claims: stopping a pipeline ---------------------- *)

\* C37: after return() has been called on a LazyAsyncIterator, no next()
\* call that was in flight makes a further call of the source's next(), as
\* when a filter rejects its current element and it loops for another one.
C37_NoPullAfterReturn ==
    [][(cls = "LazyAsyncIterator" /\ plast.op = "return") =>
          srcCalls' = srcCalls]_vars

(* ------------------ claims: settled operations terminate ------------------ *)

\* LazyAsyncIterator.from(source) for a source that counts up to some number
\* and then is done, throws once, or is a fork of a tee group whose own
\* source threw: the group caches the error and the fork throws it at every
\* later next().
InitSettled ==
    /\ srcItems \in Counting
    /\ srcTail \in {"done", "throw", "rethrow"}
    /\ srcCalls = 0
    /\ cls = "LazyAsyncIterator"
    /\ methods = <<>>
    /\ exhausted = FALSE
    /\ index = 0
    /\ plast = NoOp
    /\ inflight = <<>>
    /\ term = NoTerm
    /\ NoTee

\* The next() calls an operation may issue in the behaviours explored; a
\* drain of a source that ends needs one call for each item, one for the
\* error and one for done.
PullCap == MaxLen + 3

\* The steps the event loop takes by itself: a next() call or a terminal
\* operation resumes once the promise it awaits has settled.
SettledSteps ==
    \/ \E k \in 1..Len(inflight) : LazyAsyncNextSource(k)
    \/ \E k \in 1..Len(inflight) : LazyAsyncNextOp(k)
    \/ term.nexts < PullCap /\ AsyncTerminalResume

\* The settled terminal operations with the default concurrency 1, over a
\* pipeline that may carry a mapAsync whose callback rejects.
NextSettled ==
    \/ SettledSteps
    \/ \E fn \in RejectingFns : LazyAsyncIteratorMapAsync(fn)
    \/ LazyAsyncIteratorCollectSettled(1)
    \/ \E n \in 0..MaxLen : LazyAsyncIteratorDropSettled(n, 1)
    \/ \E pred \in PredFns : LazyAsyncIteratorTakeWhileSettled(pred, 1)
    \/ \E pred \in PredFns : LazyAsyncIteratorDropWhileSettled(pred, 1)

SpecSettled == InitSettled /\ [][NextSettled]_vars

\* The event loop runs every continuation that is ready.
SpecSettledFair == SpecSettled /\ WF_vars(SettledSteps)

SettledOps ==
    {"collectSettled", "dropSettled", "takeWhileSettled", "dropWhileSettled"}

C39_PredicateSeesValuesOnly ==
    [][(term.op = "dropWhileSettled" /\ AsyncTerminalResume)
          => LET t == ForResults(term, LastBatch, 1)
             IN  \A i \in 1..Len(t.preds) : t.preds[i].kind = "value"]_vars

(* ---------------------- claims: cursor positions ------------------------- *)

\* createTeeIterators(source, count) or createAsyncTeeIterators(source,
\* count) for a count >= 1; cls names the function that made the group.
InitTees ==
    /\ srcItems \in SeqsUpTo(Values, MaxLen)
    /\ srcTail \in {"done", "throw"}
    /\ srcCalls = 0
    /\ count \in 1..MaxForks
    /\ iteratorIndexPositions = [i \in 1..count |-> 0]
    /\ streamBuffer = <<>>
    /\ streamExhausted = FALSE
    /\ streamError = NoError
    /\ done = [i \in 1..count |-> FALSE]
    /\ forkOut = [i \in 1..count |-> <<>>]
    /\ stopped = [i \in 1..count |-> FALSE]
    /\ who = 0 /\ op = "none" /\ res = "none" /\ late = FALSE
    /\ pending = [i \in 1..count |-> Idle]
    /\ srcQueue = <<>>
    /\ readyQueue = <<>>
    /\ cls \in {"createTeeIterators", "createAsyncTeeIterators"}
    /\ methods = <<>> /\ exhausted = FALSE /\ index = 0
    /\ plast = NoOp
    /\ inflight = <<>> /\ term = NoTerm

\* The forks of a synchronous group are called synchronously, those of an
\* asynchronous group asynchronously.
NextTees ==
    \/ cls = "createTeeIterators" /\ NextTee
    \/ cls = "createAsyncTeeIterators" /\ NextAsyncTee

SpecTees == InitTees /\ [][NextTees]_vars

\* C40: in a synchronous or asynchronous tee group every cursor's read
\* position lies between 0 and the length of the shared buffer.
C40_PositionsInBuffer ==
    \A i \in Forks :
        /\ iteratorIndexPositions[i] >= 0
        /\ iteratorIndexPositions[i] <= Len(streamBuffer)

\* C40 witness: in an asynchronous group of two forks one has read both
\* values of the source and stands at the end of the buffer, the other has
\* read the first value from the buffer, which has since been trimmed.
C40_Witness ==
    /\ cls = "createAsyncTeeIterators"
    /\ count = 2 /\ Len(srcItems) = 2
    /\ \E i, j \in Forks :
          /\ forkOut[i] = srcItems /\ Len(forkOut[j]) = 1
          /\ Len(streamBuffer) = 1
          /\ iteratorIndexPositions[i] = 1 /\ iteratorIndexPositions[j] = 0

\* The same in a synchronous group.
C40_SyncWitness ==
    /\ cls = "createTeeIterators"
    /\ count = 2 /\ Len(srcItems) = 2
    /\ \E i, j \in Forks :
          /\ forkOut[i] = srcItems /\ Len(forkOut[j]) = 1
          /\ Len(streamBuffer) = 1
          /\ iteratorIndexPositions[i] = 1 /\ iteratorIndexPositions[j] = 0

====
